---- MODULE Spec2Model ----
(***************************************************************************)
(* locust-cache-benchmark: the shared, reference-counted cache connection  *)
(* of RedisUser (scenario.py), the four connect operations of CacheConnect *)
(* (cash_connect.py), the traffic mix of RedisTaskSet.cache_scenario       *)
(* (scenario.py) and the retrying GET/SET of LocustCache (locust_cache.py).*)
(*                                                                         *)
(* Users are gevent greenlets: a step of the model is the code one user    *)
(* runs between two suspension points (lock wait, connection construction, *)
(* close, cache GET/SET, retry wait, inter-request wait).                  *)
(***************************************************************************)
EXTENDS Integers, FiniteSets, Sequences, TLC

\* ---------------------------------------------------------------- bounds
\* Simulated users of the run (each runs on_start, its requests, on_stop).
NumUsers == 2
\* cache_scenario invocations of the whole run.
MaxRequests == 2
\* Value of RETRY_ATTEMPTS in the process environment.
RetryAttempts == 2

Users == 1..NumUsers

\* ------------------------------------------------------------ data model
\* Python's None for a connection handle; live handles are 1, 2, ...
None == 0

CacheTypes == {"redis_cluster", "valkey_cluster", "redis", "valkey"}

\* hit_rate of the resolved configuration, in percent.
HitRates == {0, 50, 100}

\* Values random.random() may return, in percent of [0, 1).
Draws == {0, 99}

\* Exception classes a cache client can raise, at construction or in GET/SET.
\* Every one of them derives from Exception; none derives from another.
ErrorKinds ==
    { "builtins.TimeoutError", "builtins.ConnectionError",
      "redis.ClusterDownError", "redis.TimeoutError", "redis.ConnectionError",
      "valkey.ClusterDownError", "valkey.TimeoutError", "valkey.ConnectionError",
      "other" }

\* The classes a client of the configured family can raise: its own
\* library's, the builtins (from the socket layer) and anything else.
IsValkey(c) == c.cache_type \in {"valkey_cluster", "valkey"}
ClientErrors(c) ==
    {"builtins.TimeoutError", "builtins.ConnectionError", "other"} \cup
    (IF IsValkey(c)
     THEN {"valkey.ClusterDownError", "valkey.TimeoutError", "valkey.ConnectionError"}
     ELSE {"redis.ClusterDownError", "redis.TimeoutError", "redis.ConnectionError"})

\* isinstance(e, cls) for e of class `kind`.
IsInstance(kind, cls) == cls = "Exception" \/ kind = cls

\* Whether a try statement with these except clauses catches `kind`.
Caught(clauses, kind) == \E i \in 1..Len(clauses) : IsInstance(kind, clauses[i])

\* The resolved configurations of a run (AppConfig is frozen).
Configs ==
    [cache_type : CacheTypes, host_set : BOOLEAN, port_set : BOOLEAN,
     hit_rate : HitRates]

VARIABLES
    cfg,                 \* get_config(): the resolved configuration
    shared_cache_conn,   \* RedisUser._shared_cache_conn
    shared_conn_users,   \* RedisUser._shared_conn_users
    conn_lock,           \* RedisUser._conn_lock: 0 free, else the user inside
    pc,                  \* where each user's greenlet is suspended
    cache_conn,          \* user.cache_conn
    connected,           \* user._connected
    raised,              \* an exception left this user's handler
    path,                \* branch of the user's cache_scenario in flight
    attempt,             \* attempt number of the user's GET/SET in flight
    total_requests,      \* RedisTaskSet.total_requests
    cache_hits,          \* RedisTaskSet.cache_hits
    constructed,         \* history: client objects constructed
    failed,              \* history: constructions that failed
    closed,              \* history: close() calls
    peak,                \* history: most users connected at once
    invocations,         \* history: cache_scenario invocations
    hit_gets,            \* history: hit-path GETs that returned a value
    io,                  \* what the last step received, fired and issued
    environ,             \* os.environ["RETRY_ATTEMPTS"], or Unset
    op,                  \* the executor call under study: "GET" or "SET"
    phase,               \* that call: "idle", "calling", "returned", "raised"
    outcomes,            \* history: what each underlying get()/set() did
    events,              \* history: the events.request.fire calls of the call
    error_spans,         \* history: spans of the call ended with status ERROR
    returned,            \* the `result` the call returned
    key,                 \* key / hash_key of the user's cache_scenario
    calls,               \* history: executor calls of the invocation in flight
    store,               \* the keys the backend holds
    clock,               \* the last reading of time.time_ns()
    backend,             \* whether its client can raise errors, and the
                         \* set_keys init_cache_set was run with (0: not run)
    summary,             \* what RedisTaskSet.on_stop logged in the last step
    closed_handles,      \* history: the handles close() was called on
    args,                \* the argparse Namespace handed to from_args
    argv,                \* sys.argv[1:], a sequence of tokens
    subcommand,          \* the cache_type parameter of from_args
    os_environ,          \* os.environ: CACHE_TYPE and QUERY_TIMEOUT
    yaml_file,           \* what the path given to --config holds
    yaml_flat,           \* the flattened YAML file named by --config
    built,               \* what the last from_args call produced
    objects,             \* the AppConfig objects built so far, numbered
    _config,             \* config._config: the stored object, or None
    got,                 \* what the last get_config call produced
    last_call,           \* history: the last set_config / reset_config call
    mode,                \* which run driver of utils.py runs
    run_config,          \* the config argument of the run driver
    step,                \* the statement of the driver that comes next
    blocked,             \* the driver is suspended inside that statement
    trace,               \* history: the calls the driver has made, in order
    clients,             \* len(runner.clients) of the MasterRunner
    greenlet,            \* runner.greenlet of the WorkerRunner
    started,             \* the arguments runner.start(...) was called with
    elapsed,             \* seconds of gevent.sleep(duration) gone by
    csv,                 \* the files save_results_to_csv wrote
    polls,               \* history: time.sleep calls of the master's wait
    intervals,           \* history: the arguments of those calls
    entry,               \* the init entry point (or init_cache_set) that runs
    present,             \* the i whose key_i the backend of that run holds
    issued,              \* history: the calls that entry point has made
    _otel_initialized,   \* otel_setup._otel_initialized
    _metrics_initialized,\* otel_setup._metrics_initialized
    otel                 \* the tracing switches of the configuration, and
                         \* history: the setup / shutdown calls made

conn_vars == <<shared_cache_conn, shared_conn_users, conn_lock>>
user_vars == <<pc, cache_conn, connected, raised, path, attempt>>
counter_vars == <<total_requests, cache_hits>>
history_vars == <<constructed, failed, closed, peak, invocations, hit_gets>>
exec_vars == <<environ, op, phase, outcomes, events, error_spans, returned>>
mix_vars == <<key, calls, store, clock, backend>>
log_vars == <<summary, closed_handles>>
config_vars == <<args, argv, subcommand, os_environ, yaml_file, yaml_flat, built, objects,
                 _config, got, last_call>>
driver_vars == <<mode, run_config, step, blocked, trace, clients, greenlet, started, elapsed,
                 csv, polls, intervals>>
init_vars == <<entry, present, issued>>
otel_vars == <<_otel_initialized, _metrics_initialized, otel>>
side_vars == <<init_vars, otel_vars>>
aux_vars == <<config_vars, driver_vars, side_vars>>
vars == <<cfg, conn_vars, user_vars, counter_vars, history_vars, io, exec_vars, mix_vars,
          log_vars, aux_vars>>

\* ------------------------------------------------- CacheConnect (connect)
\* What a connect operation hands back: the handle and whether it raised.
Returned(conn) == [conn |-> conn, raised |-> FALSE]
Propagated == [conn |-> None, raised |-> TRUE]

\* The body shared by the four operations: the host/port check, then the
\* client construction inside try/except with the given except clauses.
ConnectWith(clauses, c, outcome, fresh) ==
    IF ~c.host_set \/ ~c.port_set THEN Returned(None)
    ELSE IF outcome = "ok" THEN Returned(fresh)
    ELSE IF Caught(clauses, outcome) THEN Returned(None)
    ELSE Propagated

\* Variant: redis_connect without its last, catch-all except clause.
redis_connect_clauses_narrow ==
    <<"redis.ClusterDownError", "redis.TimeoutError", "redis.ConnectionError">>

redis_connect_clauses ==
    <<"redis.ClusterDownError", "redis.TimeoutError", "redis.ConnectionError", "Exception">>
redis_standalone_connect_clauses ==
    <<"redis.TimeoutError", "redis.ConnectionError", "Exception">>
valkey_connect_clauses ==
    <<"valkey.ClusterDownError", "valkey.TimeoutError", "valkey.ConnectionError", "Exception">>
\* Variant: valkey_standalone_connect without its catch-all except clause.
valkey_standalone_connect_clauses_narrow ==
    <<"valkey.TimeoutError", "valkey.ConnectionError">>

valkey_standalone_connect_clauses ==
    <<"valkey.TimeoutError", "valkey.ConnectionError", "Exception">>

redis_connect(c, outcome, fresh) ==
    ConnectWith(redis_connect_clauses, c, outcome, fresh)
redis_standalone_connect(c, outcome, fresh) ==
    ConnectWith(redis_standalone_connect_clauses, c, outcome, fresh)
valkey_connect(c, outcome, fresh) ==
    ConnectWith(valkey_connect_clauses, c, outcome, fresh)
valkey_standalone_connect(c, outcome, fresh) ==
    ConnectWith(valkey_standalone_connect_clauses, c, outcome, fresh)

\* The if/elif chain of _get_shared_connection over cfg.cache_type.
ConnectByType(c, outcome, fresh) ==
    IF c.cache_type = "redis_cluster" THEN redis_connect(c, outcome, fresh)
    ELSE IF c.cache_type = "valkey_cluster" THEN valkey_connect(c, outcome, fresh)
    ELSE IF c.cache_type = "redis" THEN redis_standalone_connect(c, outcome, fresh)
    ELSE IF c.cache_type = "valkey" THEN valkey_standalone_connect(c, outcome, fresh)
    ELSE Returned(None)

\* A construction reaches the backend only past the host/port check.
ConstructOutcomes(c) ==
    IF c.host_set /\ c.port_set THEN {"ok"} \cup ClientErrors(c) ELSE {"unset"}

NumConnected(f) == Cardinality({u \in Users : f[u]})
Max(a, b) == IF a >= b THEN a ELSE b

\* ------------------------------------------- RedisTaskSet.on_stop (summary)
\* No summary was logged yet.
NoSummary == [kind |-> "none", total |-> 0, hits |-> 0, rate |-> 0]

\* Variant: the share of the requests that were not hits.
HitRateOfMisses(hits, total) ==
    LET n == (total - hits) * 10000
        q == n \div total
        r == n % total
    IN  IF 2 * r > total \/ (2 * r = total /\ q % 2 = 1) THEN q + 1 ELSE q

\* (cache_hits / total_requests) * 100 as "{hit_rate:.2f}" prints it, in
\* hundredths of a percent: the quotient rounded to the nearest hundredth, a
\* tie to the even one (the float and this agree for every total below 160).
HitRate(hits, total) ==
    LET n == hits * 10000
        q == n \div total
        r == n % total
    IN  IF 2 * r > total \/ (2 * r = total /\ q % 2 = 1) THEN q + 1 ELSE q

\* Variant: the rate branch taken for every count, zero included.
LogsRateAlways(total) == total >= 0

\* The guard of on_stop: the rate is computed only for a positive count.
LogsRate(total) == total > 0

\* What on_stop logs from the class counters; a division by zero raises.
TaskSetOnStop(total, hits) ==
    IF LogsRate(total)
    THEN IF total = 0
         THEN [kind |-> "ZeroDivisionError", total |-> total, hits |-> hits, rate |-> 0]
         ELSE [kind |-> "rate", total |-> total, hits |-> hits,
               rate |-> HitRate(hits, total)]
    ELSE [kind |-> "N/A", total |-> 0, hits |-> 0, rate |-> 0]

\* --------------------------------------------- config: AppConfig.from_args
\* os.environ.get(...) of a variable that is not set, and a key the YAML file
\* does not give (both None in the source).
Absent == "<absent>"
Missing == -1

\* What pydantic makes of a string given for an int field; Invalid is a
\* string that is no integer.
Invalid == -2
ParseInt(str) ==
    CASE str = "0" -> 0
      [] str = "2" -> 2
      [] OTHER -> Invalid

\* The default and the constraint (ge=0) of the field query_timeout.
query_timeout_default == 1
ValidQueryTimeout(v) == v # Invalid /\ v >= 0

\* The Literal type of the field cache_type.
ValidCacheType(t) == t \in CacheTypes

\* Variants: the CLI argument, or the YAML value, looked at before the
\* environment.
FieldSourcesEnvLast(yaml_mode) == IF yaml_mode THEN <<"yaml", "env">> ELSE <<"args", "env">>
CacheTypeSourcesParamFirst(yaml_mode) ==
    IF yaml_mode THEN <<"param", "env", "yaml">> ELSE <<"param", "env">>

\* The order in which the if/elif chains of from_args look at the sources of
\* a field, and of cache_type; the first source that gives a value wins.
FieldSources(yaml_mode) == IF yaml_mode THEN <<"env", "yaml">> ELSE <<"env", "args">>
CacheTypeSources(yaml_mode) ==
    IF yaml_mode THEN <<"env", "yaml", "param">> ELSE <<"env", "param">>

\* The index of the first source in the order that gives a value, else 0.
FirstGiven(order, given) ==
    LET idx == {i \in 1..Len(order) : given[order[i]]}
    IN  IF idx = {} THEN 0 ELSE CHOOSE i \in idx : \A j \in idx : i <= j

\* kwargs["query_timeout"] as AppConfig receives it (the environment string
\* parsed), or the field's default when no source gives a value.
QueryTimeoutKwarg(a, env, y) ==
    LET order == FieldSources(a.config)
        given == [env |-> env.QUERY_TIMEOUT # Absent,
                  yaml |-> y.query_timeout # Missing,
                  args |-> a.query_timeout # Missing]
        value == [env |-> ParseInt(env.QUERY_TIMEOUT),
                  yaml |-> y.query_timeout,
                  args |-> a.query_timeout]
        i == FirstGiven(order, given)
    IN  IF i = 0 THEN query_timeout_default ELSE value[order[i]]

\* kwargs["cache_type"].
CacheTypeKwarg(a, param, env, y) ==
    LET order == CacheTypeSources(a.config)
        given == [env |-> env.CACHE_TYPE # Absent,
                  yaml |-> y.cache_type # Absent,
                  param |-> TRUE]
        value == [env |-> env.CACHE_TYPE, yaml |-> y.cache_type, param |-> param]
    IN  value[order[FirstGiven(order, given)]]

\* A token of sys.argv: the number of dashes it starts with, the text after
\* them up to the first "=", and whether an "=" (and a value) follows.
Tok(d, n, e) == [dash |-> d, name |-> n, eq |-> e]

\* The keys of _ARG_MAP and the table _SHORT_FLAG_TO_DEST (keys without the
\* dash).
_ARG_MAP ==
    {"fqdn", "port", "ssl", "query_timeout", "connections_pool", "hit_rate", "value_size",
     "ttl", "request_rate", "set_keys", "retry_count", "retry_wait", "otel_tracing_enabled",
     "otel_metrics_enabled", "otel_exporter_endpoint", "otel_service_name", "duration",
     "connections", "spawn_rate", "cluster_mode", "master_bind_host", "master_bind_port",
     "num_workers", "cache_username", "cache_password", "ssl_cert_reqs", "ssl_ca_certs"}
_SHORT_FLAG_TO_DEST ==
    [f |-> "fqdn", p |-> "port", x |-> "ssl", q |-> "query_timeout", r |-> "hit_rate",
     d |-> "duration", c |-> "connections", n |-> "spawn_rate", k |-> "value_size",
     t |-> "ttl", l |-> "connections_pool", rc |-> "retry_count", rw |-> "retry_wait",
     s |-> "set_keys", cm |-> "cluster_mode", mbh |-> "master_bind_host",
     mbp |-> "master_bind_port", nw |-> "num_workers", rr |-> "request_rate"]

\* flag[2:].replace("-", "_") of the long names the command lines use.
Underscored(name) ==
    CASE name = "query-timeout" -> "query_timeout"
      [] name = "query-t" -> "query_t"
      [] OTHER -> name

\* The dest _detect_explicit_args adds for one token, Absent when it adds
\* none: a token without a leading dash and --config / -C are skipped, a
\* long flag counts when its name is a key of _ARG_MAP, a short one when it
\* is a key of _SHORT_FLAG_TO_DEST.
ExplicitDest(token) ==
    IF token.dash = 0 THEN Absent
    ELSE IF (token.dash = 2 /\ token.name = "config") \/ (token.dash = 1 /\ token.name = "C")
    THEN Absent
    ELSE IF token.dash = 2
    THEN IF Underscored(token.name) \in _ARG_MAP THEN Underscored(token.name) ELSE Absent
    ELSE IF token.name \in DOMAIN _SHORT_FLAG_TO_DEST THEN _SHORT_FLAG_TO_DEST[token.name]
    ELSE Absent

_detect_explicit_args(tokens) ==
    {ExplicitDest(tokens[i]) : i \in 1..Len(tokens)} \ {Absent}

\* What the path given to --config holds, and _load_yaml_config of it: the
\* checks in the order of the source, each failing one ends in sys.exit(1);
\* an empty document counts as an empty mapping.
YamlFiles == {"valid", "empty", "not_found", "invalid_yaml", "not_mapping", "unknown_key"}
_load_yaml_config(file) ==
    IF file = "not_found" THEN "SystemExit"
    ELSE IF file = "invalid_yaml" THEN "SystemExit"
    ELSE IF file = "empty" THEN "YamlConfig"
    ELSE IF file = "not_mapping" THEN "SystemExit"
    ELSE IF file = "unknown_key" THEN "SystemExit"
    ELSE "YamlConfig"

\* from_args: in YAML mode a parameter the scan of sys.argv finds next to
\* --config exits, and so does a file that cannot be loaded; else the
\* kwargs are resolved and AppConfig(**kwargs) validates them. loaded tells
\* whether _load_yaml_config was called.
from_args(a, param, env, y, tokens, file) ==
    IF a.config /\ _detect_explicit_args(tokens) # {}
    THEN [outcome |-> "SystemExit", loaded |-> FALSE, cache_type |-> Absent,
          query_timeout |-> Missing]
    ELSE IF a.config /\ _load_yaml_config(file) = "SystemExit"
    THEN [outcome |-> "SystemExit", loaded |-> TRUE, cache_type |-> Absent,
          query_timeout |-> Missing]
    ELSE LET t == CacheTypeKwarg(a, param, env, y)
             q == QueryTimeoutKwarg(a, env, y)
         IN  IF ValidCacheType(t) /\ ValidQueryTimeout(q)
             THEN [outcome |-> "ok", loaded |-> a.config, cache_type |-> t,
                   query_timeout |-> q]
             ELSE [outcome |-> "ValidationError", loaded |-> a.config, cache_type |-> t,
                   query_timeout |-> q]

NotBuilt ==
    [outcome |-> "none", loaded |-> FALSE, cache_type |-> Absent, query_timeout |-> Missing]

\* ------------------------------------ config: the process-wide singleton
\* Variant: reset_config that leaves the stored object in place.
reset_config_kept(stored) == stored

set_config(config) == config
reset_config(stored) == None

\* get_config: the stored object, or RuntimeError when there is none.
get_config(stored) ==
    IF stored = None THEN [raised |-> "RuntimeError", value |-> None]
    ELSE [raised |-> "none", value |-> stored]

NotCalled == [raised |-> "none", value |-> None]
NoCall == [op |-> "none", config |-> None]

\* No configuration was built or stored.
ConfigIdle ==
    /\ args = [config |-> FALSE, query_timeout |-> query_timeout_default]
    /\ argv = <<>>
    /\ subcommand = "redis_cluster"
    /\ os_environ = [CACHE_TYPE |-> Absent, QUERY_TIMEOUT |-> Absent]
    /\ yaml_file = "valid"
    /\ yaml_flat = [cache_type |-> Absent, query_timeout |-> Missing]
    /\ built = NotBuilt
    /\ objects = 0
    /\ _config = None
    /\ got = NotCalled
    /\ last_call = NoCall

\* --------------------------------------- main: the init entry points
\* No init entry point runs.
NoEntry ==
    [func |-> "none", pc |-> "done", cache_client |-> None, set_keys |-> 0, i |-> 0,
     exc |-> "none", code |-> -1, returned |-> FALSE, failed_at |-> 0, run |-> 0,
     clean |-> FALSE, before |-> {}]
InitIdle ==
    /\ entry = NoEntry
    /\ present = {}
    /\ issued = <<>>

\* --------------------------------------------- otel_setup: module state
\* The last call: the flag before it, the error its try block ended with,
\* its return value, and the TracerProviders it made, the force_flush and
\* shutdown calls it made on the provider.
NoOtelCall ==
    [fn |-> "none", was |-> FALSE, error |-> "none", raised |-> "none", result |-> FALSE,
     made |-> 0, flushed |-> 0, shut |-> 0]
OtelSwitches(t, m) ==
    [tracing_enabled |-> t, metrics_enabled |-> m, calls |-> 0, armed |-> FALSE,
     created |-> 0, last |-> NoOtelCall]
OtelIdle ==
    /\ _otel_initialized = FALSE
    /\ _metrics_initialized = FALSE
    /\ otel = OtelSwitches(FALSE, FALSE)
SideIdle == InitIdle /\ OtelIdle

\* ------------------------------------------------ utils: the run drivers
\* The statements of the three drivers that call out, in program order.
\* Variant: the local driver shutting tracing down before it saves the CSV.
LocalStepsCsvLast ==
    <<"setup_otel_tracing", "runner.start", "gevent.sleep", "runner.quit", "_log_stats",
      "shutdown_otel_tracing", "save_results_to_csv">>

LocalSteps ==
    <<"setup_otel_tracing", "runner.start", "gevent.sleep", "runner.quit", "_log_stats",
      "save_results_to_csv", "shutdown_otel_tracing">>
MasterSteps ==
    <<"setup_otel_tracing", "runner.start", "gevent.sleep", "runner.quit", "_log_stats",
      "save_results_to_csv", "shutdown_otel_tracing">>

\* Variant: the worker driver shutting tracing down without joining.
WorkerStepsNoJoin == <<"setup_otel_tracing", "shutdown_otel_tracing">>

WorkerSteps == <<"setup_otel_tracing", "runner.greenlet.join", "shutdown_otel_tracing">>

Steps(m) ==
    CASE m = "local" -> LocalSteps
      [] m = "master" -> MasterSteps
      [] OTHER -> WorkerSteps

\* The filename each driver saves its results to.
CsvName(m) ==
    IF m = "master" THEN "redis_test_results_master.csv" ELSE "redis_test_results.csv"

\* Variant: the master leaving its wait one worker short.
EnoughWorkersButOne(n, num_workers) == ~(n < num_workers - 1)

\* The master's wait loop ends: not (len(runner.clients) < num_workers).
EnoughWorkers(n, num_workers) == ~(n < num_workers)

\* time.sleep(1) of the master's wait loop.
PollInterval == 1

NotStarted == [user_count |-> 0, spawn_rate |-> 0, clients |-> 0]

\* No driver has run.
DriverIdle ==
    /\ mode = "local"
    /\ run_config = [connections |-> 1, spawn_rate |-> 1, duration |-> 1, num_workers |-> 1]
    /\ step = 1
    /\ blocked = FALSE
    /\ trace = <<>>
    /\ clients = 0
    /\ greenlet = "none"
    /\ started = NotStarted
    /\ elapsed = 0
    /\ csv = {}
    /\ polls = 0
    /\ intervals = {}

\* ------------------------------------------------------------------ Init
\* No user has started and no request was made.
RunIdle ==
    /\ shared_cache_conn = None
    /\ shared_conn_users = 0
    /\ conn_lock = 0
    /\ pc = [u \in Users |-> "idle"]
    /\ cache_conn = [u \in Users |-> None]
    /\ connected = [u \in Users |-> FALSE]
    /\ raised = [u \in Users |-> FALSE]
    /\ path = [u \in Users |-> "none"]
    /\ attempt = [u \in Users |-> 0]
    /\ total_requests = 0
    /\ cache_hits = 0
    /\ constructed = 0
    /\ failed = 0
    /\ closed = 0
    /\ peak = 0
    /\ invocations = 0
    /\ hit_gets = 0
    /\ summary = NoSummary
    /\ closed_handles = {}
    /\ io = <<>>

\* No executor call is under study.
ExecIdle ==
    /\ op = "none"
    /\ phase = "idle"
    /\ outcomes = <<>>
    /\ events = <<>>
    /\ error_spans = 0
    /\ returned = "none"

\* No key was drawn and no call logged; the backend is empty and may fail.
MixIdle ==
    /\ key = [u \in Users |-> <<>>]
    /\ calls = [u \in Users |-> <<>>]
    /\ store = {}
    /\ clock = 0
    /\ backend = [faults |-> TRUE, populated |-> 0]

Init ==
    /\ cfg \in Configs
    /\ environ = RetryAttempts
    /\ RunIdle
    /\ ExecIdle
    /\ SideIdle
    /\ MixIdle
    /\ ConfigIdle
    /\ DriverIdle

\* --------------------------------------- RedisUser: on_start and acquire
\* Variant: a lock that lets a second task in.
AcquirableAlways(lock) == TRUE
\* `with cls._conn_lock:` on a Semaphore of value 1: a task enters when no
\* task is inside, and waits otherwise.
Acquirable(lock) == lock = 0

\* on_start up to the first suspension point of _get_shared_connection:
\* with a live shared handle the whole acquire runs without yielding.
OnStartShared(u) ==
    /\ pc[u] = "idle"
    /\ Acquirable(conn_lock)
    /\ shared_cache_conn # None
    /\ shared_conn_users' = shared_conn_users + 1
    /\ cache_conn' = [cache_conn EXCEPT ![u] = shared_cache_conn]
    /\ connected' = [connected EXCEPT ![u] = TRUE]
    /\ peak' = Max(peak, NumConnected(connected'))
    /\ pc' = [pc EXCEPT ![u] = "running"]
    /\ io' = <<>>
    /\ summary' = NoSummary
    /\ UNCHANGED <<cfg, closed_handles, aux_vars, exec_vars, mix_vars, shared_cache_conn, conn_lock, raised, path, attempt,
                   counter_vars, constructed, failed, closed, invocations, hit_gets>>

\* No shared handle yet: the user takes the lock and starts the construction.
OnStartConstruct(u) ==
    /\ pc[u] = "idle"
    /\ Acquirable(conn_lock)
    /\ shared_cache_conn = None
    /\ conn_lock' = u
    /\ pc' = [pc EXCEPT ![u] = "constructing"]
    /\ io' = <<"connect">>
    /\ summary' = NoSummary
    /\ UNCHANGED <<cfg, closed_handles, aux_vars, exec_vars, mix_vars, shared_cache_conn, shared_conn_users, cache_conn, connected,
                   raised, path, attempt, counter_vars, history_vars>>

\* The rest of _get_shared_connection once the connect operation is back, as
\* [conn, users, raised]: the handle is stored, the count is incremented.
AcquireAfterConnect(r, users) ==
    IF r.raised
    THEN [conn |-> None, users |-> users, raised |-> TRUE]
    ELSE [conn |-> r.conn, users |-> users + 1, raised |-> FALSE]

\* The construction ends (with a client or an error); on_start finishes.
ConstructDone(u, outcome) ==
    /\ pc[u] = "constructing"
    /\ LET r == ConnectByType(cfg, outcome, constructed + 1)
           a == AcquireAfterConnect(r, shared_conn_users)
       IN /\ shared_cache_conn' = a.conn
          /\ shared_conn_users' = a.users
          /\ conn_lock' = 0
          /\ cache_conn' = [cache_conn EXCEPT ![u] = a.conn]
          /\ connected' = [connected EXCEPT ![u] = (~a.raised /\ a.conn # None)]
          /\ raised' = [raised EXCEPT ![u] = a.raised]
          /\ pc' = [pc EXCEPT ![u] = IF a.raised THEN "stopped" ELSE "running"]
          /\ constructed' = IF outcome = "ok" THEN constructed + 1 ELSE constructed
          /\ failed' = IF outcome = "ok" THEN failed ELSE failed + 1
          /\ peak' = Max(peak, NumConnected(connected'))
          /\ io' = IF a.raised THEN <<"connect_raised">>
                   ELSE IF a.conn = None THEN <<"connect_failed">>
                   ELSE <<"connect_ok">>
    /\ summary' = NoSummary
    /\ UNCHANGED <<cfg, closed_handles, aux_vars, exec_vars, mix_vars, path, attempt, counter_vars, closed, invocations, hit_gets>>

\* ---------------------------------------- RedisUser: on_stop and release
\* on_stop of a user that holds no reference: the task set logs its
\* summary, then nothing is released.
OnStopUnconnected(u) ==
    /\ pc[u] = "running"
    /\ ~connected[u]
    /\ summary' = TaskSetOnStop(total_requests, cache_hits)
    /\ pc' = [pc EXCEPT ![u] = "stopped"]
    /\ io' = <<>>
    /\ UNCHANGED <<cfg, closed_handles, aux_vars, exec_vars, mix_vars, conn_vars, cache_conn, connected, raised, path, attempt,
                   counter_vars, history_vars>>

\* Variant: every release of a live handle closes it.
ReleaseClosesAlways(users, conn) == conn # None

\* Variant: the close condition off by one (closes under the last-but-one).
ReleaseClosesEarly(users, conn) == users <= 1 /\ conn # None

\* The condition under which release closes the handle, after its decrement.
ReleaseCloses(users, conn) == users <= 0 /\ conn # None

\* Variant: on_stop that leaves the user marked as connected.
ConnectedAfterReleaseKept == TRUE
\* `self._connected = False` after the release returned.
ConnectedAfterRelease == FALSE

\* on_stop of a connected user whose release leaves the handle open.
OnStopKeep(u) ==
    /\ pc[u] = "running"
    /\ connected[u]
    /\ Acquirable(conn_lock)
    /\ ~ReleaseCloses(shared_conn_users - 1, shared_cache_conn)
    /\ summary' = TaskSetOnStop(total_requests, cache_hits)
    /\ shared_conn_users' = shared_conn_users - 1
    /\ connected' = [connected EXCEPT ![u] = ConnectedAfterRelease]
    /\ pc' = [pc EXCEPT ![u] = "stopped"]
    /\ io' = <<>>
    /\ UNCHANGED <<cfg, closed_handles, aux_vars, exec_vars, mix_vars, shared_cache_conn, conn_lock, cache_conn, raised, path,
                   attempt, counter_vars, history_vars>>

\* on_stop of a connected user whose release closes: the decrement, then
\* close() is called under the lock.
OnStopClose(u) ==
    /\ pc[u] = "running"
    /\ connected[u]
    /\ Acquirable(conn_lock)
    /\ ReleaseCloses(shared_conn_users - 1, shared_cache_conn)
    /\ summary' = TaskSetOnStop(total_requests, cache_hits)
    /\ shared_conn_users' = shared_conn_users - 1
    /\ conn_lock' = u
    /\ closed' = closed + 1
    /\ closed_handles' = closed_handles \cup {shared_cache_conn}
    /\ pc' = [pc EXCEPT ![u] = "closing"]
    /\ io' = <<"close">>
    /\ UNCHANGED <<cfg, aux_vars, exec_vars, mix_vars, shared_cache_conn, cache_conn, connected, raised, path,
                   attempt, counter_vars, constructed, failed, peak, invocations,
                   hit_gets>>

CloseOutcomes(c) == {"ok"} \cup ClientErrors(c)

\* Variant: close() called outside any try, so that its error leaves release.
ReleaseAfterCloseUnguarded(outcome, conn, users) ==
    IF outcome = "ok"
    THEN [conn |-> None, users |-> 0, raised |-> FALSE]
    ELSE [conn |-> conn, users |-> users, raised |-> TRUE]

\* The rest of _release_shared_connection once close() is back, as
\* [conn, users, raised]: errors are logged, the handle is discarded.
ReleaseAfterClose(outcome, conn, users) ==
    [conn |-> None, users |-> 0, raised |-> FALSE]

\* close() ends (cleanly or with an error); on_stop finishes.
CloseDone(u, outcome) ==
    /\ pc[u] = "closing"
    /\ LET r == ReleaseAfterClose(outcome, shared_cache_conn, shared_conn_users)
       IN /\ shared_cache_conn' = r.conn
          /\ shared_conn_users' = r.users
          /\ raised' = [raised EXCEPT ![u] = r.raised]
          /\ connected' = [connected EXCEPT ![u] = r.raised]
          /\ io' = IF r.raised THEN <<"close_raised">>
                   ELSE IF outcome = "ok" THEN <<"closed">>
                   ELSE <<"close_error">>
    /\ conn_lock' = 0
    /\ pc' = [pc EXCEPT ![u] = "stopped"]
    /\ summary' = NoSummary
    /\ UNCHANGED <<cfg, closed_handles, aux_vars, exec_vars, mix_vars, cache_conn, path, attempt, counter_vars, history_vars>>

Lifecycle ==
    \E u \in Users :
        \/ OnStartShared(u)
        \/ OnStartConstruct(u)
        \/ \E o \in ConstructOutcomes(cfg) : ConstructDone(u, o)
        \/ OnStopUnconnected(u)
        \/ OnStopKeep(u)
        \/ OnStopClose(u)
        \/ \E o \in CloseOutcomes(cfg) : CloseDone(u, o)

\* ------------------------------------- LocustCache: the retrying GET/SET
\* _RETRYABLE_EXCEPTIONS of locust_cache.py: the names TimeoutError and
\* ConnectionError are the builtins there, ClusterDownError is redis's.
RetryableExceptions ==
    {"builtins.TimeoutError", "builtins.ConnectionError", "redis.ClusterDownError"}

\* Variant: every error is re-raised to tenacity as retryable.
IsRetryableAny(kind) == TRUE

IsRetryable(kind) == \E cls \in RetryableExceptions : IsInstance(kind, cls)

\* What the backend can answer to one GET attempt, and to one SET attempt.
GetOutcomes(c) == {"value", "absent"} \cup ClientErrors(c)
SetOutcomes(c) == {"ok"} \cup ClientErrors(c)

\* int(os.environ.get("RETRY_ATTEMPTS", 3)): the executor reads the attempt
\* limit from the process environment, 3 when the variable is not set.
DefaultRetryAttempts == 3
\* os.environ.get finding no RETRY_ATTEMPTS (a set one is 0 or more).
Unset == -1
AttemptLimit(env) == IF env = Unset THEN DefaultRetryAttempts ELSE env

\* tenacity's stop_after_attempt(limit), asked after attempt number n.
StopAfterAttempt(limit, n) == n >= limit

\* Whether tenacity runs another attempt after attempt n ended with `outcome`
\* (retry_if_exception_type and stop_after_attempt).
RetriesAfter(outcome, n) ==
    /\ outcome \in ErrorKinds
    /\ IsRetryable(outcome)
    /\ ~StopAfterAttempt(AttemptLimit(environ), n)

\* The event one attempt fires: exception=None, or exception=e.
FiredEvent(outcome) == IF outcome \in ErrorKinds THEN "event_fail" ELSE "event_ok"

\* What locust_redis_get returns when its last attempt ended with `outcome`.
GetResult(outcome) == IF outcome = "value" THEN "value" ELSE "None"

\* ------------------------------------------ RedisTaskSet.cache_scenario
\* Variant: the connection check dropped.
HasConnectionUnchecked(u) == TRUE

\* Whether cache_scenario goes on past its connection check.
HasConnection(u) == cache_conn[u] # None

\* Variant: total_requests counted after the connection check.
IncrementTotalIfConnected(t, u) == IF HasConnection(u) THEN t + 1 ELSE t

\* Variant: the increment of cache_hits spans a suspension point, so that it
\* is lost when another user's request is in flight.
IncrementHitsLost(h, u) ==
    IF \E v \in Users \ {u} : pc[v] \in {"get", "get_wait", "set", "set_wait"} THEN h ELSE h + 1

\* self.__class__.total_requests += 1 and self.__class__.cache_hits += 1:
\* no suspension point lies between the read and the write.
IncrementTotal(t, u) == t + 1
IncrementHits(h, u) == h + 1

\* random.random() < hit_rate
\* Variant: the draw compared with <= instead of <.
TakesHitPathInclusive(draw, c) == draw <= c.hit_rate

TakesHitPath(draw, c) == draw < c.hit_rate

\* cache_scenario of a user without a connection: counted, then abandoned.
ScenarioAbstain(u) ==
    /\ pc[u] = "running"
    /\ invocations < MaxRequests
    /\ ~HasConnection(u)
    /\ total_requests' = IncrementTotal(total_requests, u)
    /\ invocations' = invocations + 1
    /\ io' = <<>>
    /\ summary' = NoSummary
    /\ UNCHANGED <<cfg, closed_handles, aux_vars, exec_vars, conn_vars, user_vars, cache_hits, constructed, failed,
                   closed, peak, hit_gets>>

\* cache_scenario up to its first suspension point: counted, the path is
\* drawn and the GET is issued.
ScenarioIssue(u, draw) ==
    /\ pc[u] = "running"
    /\ invocations < MaxRequests
    /\ HasConnection(u)
    /\ total_requests' = IncrementTotal(total_requests, u)
    /\ invocations' = invocations + 1
    /\ path' = [path EXCEPT ![u] = IF TakesHitPath(draw, cfg) THEN "hit" ELSE "miss"]
    /\ attempt' = [attempt EXCEPT ![u] = 1]
    /\ pc' = [pc EXCEPT ![u] = "get"]
    /\ io' = <<"GET">>
    /\ summary' = NoSummary
    /\ UNCHANGED <<cfg, closed_handles, aux_vars, exec_vars, conn_vars, cache_conn, connected, raised, cache_hits,
                   constructed, failed, closed, peak, hit_gets>>

\* Variant: a hit counted for every GET that returns a value.
CountsHitAnyPath(p, result) == result # "None"

\* Whether cache_scenario counts a hit for this GET result on this path.
CountsHit(p, result) == p = "hit" /\ result # "None"

\* Whether cache_scenario writes back after this GET result.
\* Variant: the SET issued whatever the GET returned.
WritesBackAlways(p, result) == TRUE

WritesBack(p, result) == result = "None"

\* One GET attempt ends. After a retryable error with attempts left the
\* user is parked in tenacity's sleep (a yield to the other users); otherwise
\* locust_redis_get returns and cache_scenario runs on to the SET or to its
\* end.
GetAttemptDone(u, outcome) ==
    /\ pc[u] = "get"
    /\ LET received == IF outcome \in ErrorKinds THEN "get_error"
                       ELSE IF outcome = "value" THEN "get_value" ELSE "get_absent"
           result == GetResult(outcome)
       IN IF RetriesAfter(outcome, attempt[u])
          THEN /\ pc' = [pc EXCEPT ![u] = "get_wait"]
               /\ io' = <<received, FiredEvent(outcome), "wait">>
               /\ UNCHANGED <<attempt, path, cache_hits, hit_gets>>
          ELSE /\ cache_hits' = IF CountsHit(path[u], result)
                                THEN IncrementHits(cache_hits, u) ELSE cache_hits
               /\ hit_gets' = IF path[u] = "hit" /\ outcome = "value"
                              THEN hit_gets + 1 ELSE hit_gets
               /\ IF WritesBack(path[u], result)
                  THEN /\ pc' = [pc EXCEPT ![u] = "set"]
                       /\ attempt' = [attempt EXCEPT ![u] = 1]
                       /\ path' = path
                       /\ io' = <<received, FiredEvent(outcome), "SET">>
                  ELSE /\ pc' = [pc EXCEPT ![u] = "running"]
                       /\ attempt' = [attempt EXCEPT ![u] = 0]
                       /\ path' = [path EXCEPT ![u] = "none"]
                       /\ io' = <<received, FiredEvent(outcome)>>
    /\ summary' = NoSummary
    /\ UNCHANGED <<cfg, closed_handles, aux_vars, exec_vars, conn_vars, cache_conn, connected, raised, total_requests,
                   constructed, failed, closed, peak, invocations>>

\* One SET attempt ends: parked in tenacity's sleep after a retryable error
\* with attempts left; when locust_redis_set returns, cache_scenario ends.
SetAttemptDone(u, outcome) ==
    /\ pc[u] = "set"
    /\ LET received == IF outcome \in ErrorKinds THEN "set_error" ELSE "set_ok"
       IN IF RetriesAfter(outcome, attempt[u])
          THEN /\ pc' = [pc EXCEPT ![u] = "set_wait"]
               /\ io' = <<received, FiredEvent(outcome), "wait">>
               /\ UNCHANGED <<attempt, path>>
          ELSE /\ pc' = [pc EXCEPT ![u] = "running"]
               /\ attempt' = [attempt EXCEPT ![u] = 0]
               /\ path' = [path EXCEPT ![u] = "none"]
               /\ io' = <<received, FiredEvent(outcome)>>
    /\ summary' = NoSummary
    /\ UNCHANGED <<cfg, closed_handles, aux_vars, exec_vars, conn_vars, cache_conn, connected, raised, counter_vars,
                   history_vars>>

\* Where a user inside cache_scenario is: a GET attempt in flight or parked
\* before the next one, and the same for the SET.
Getting == {"get", "get_wait"}
Setting == {"set", "set_wait"}
Requesting == Getting \cup Setting

\* The sleep between two attempts is over: the next attempt is issued.
RetryWake(u) ==
    /\ pc[u] \in {"get_wait", "set_wait"}
    /\ pc' = [pc EXCEPT ![u] = IF pc[u] = "get_wait" THEN "get" ELSE "set"]
    /\ attempt' = [attempt EXCEPT ![u] = attempt[u] + 1]
    /\ io' = IF pc[u] = "get_wait" THEN <<"GET">> ELSE <<"SET">>
    /\ summary' = NoSummary
    /\ UNCHANGED <<cfg, closed_handles, aux_vars, exec_vars, conn_vars, cache_conn, connected,
                   raised, path, counter_vars, history_vars>>

Requests ==
    \E u \in Users :
        \/ ScenarioAbstain(u) /\ UNCHANGED mix_vars
        \/ \E d \in Draws : ScenarioIssue(u, d) /\ UNCHANGED mix_vars
        \/ \E o \in GetOutcomes(cfg) : GetAttemptDone(u, o) /\ UNCHANGED mix_vars
        \/ \E o \in SetOutcomes(cfg) : SetAttemptDone(u, o) /\ UNCHANGED mix_vars
        \/ RetryWake(u) /\ UNCHANGED mix_vars

Next == Lifecycle \/ Requests

\* Runs with requests are looked at for one cluster backend of one client
\* family and one standalone backend of the other; the four connect
\* operations are all exercised where the lifecycle alone is looked at.
RunCacheTypes == {"redis_cluster", "valkey"}
InitRun ==
    /\ Init
    /\ cfg.cache_type \in RunCacheTypes

Spec == InitRun /\ [][Next]_vars

\* ------------------------------- LocustCache: one executor call in detail
\* A single locust_redis_get / locust_redis_set call, with every underlying
\* call, fired event and error span kept, under every value of
\* RETRY_ATTEMPTS and of the retry_attempts the configuration resolved to.
run_vars == <<conn_vars, user_vars, counter_vars, history_vars, io, mix_vars, log_vars,
              aux_vars>>

\* RETRY_ATTEMPTS in the environment, and --retry-count / the YAML value
\* (3 when not given).
EnvAttempts == {Unset} \cup (0..RetryAttempts)
GivenAttempts == (0..RetryAttempts) \cup {DefaultRetryAttempts}

\* AppConfig.from_args, for one field: the environment variable wins.
FromArgs(env, given) == IF env # Unset THEN env ELSE given

\* The resolved configurations of the executor runs.
ExecConfigs ==
    { [cache_type |-> t, host_set |-> TRUE, port_set |-> TRUE, hit_rate |-> 100,
       retry_attempts |-> FromArgs(e, g)] :
      t \in CacheTypes, e \in EnvAttempts, g \in GivenAttempts }

\* What the call returns for the answer of its last attempt.
SetResult(outcome) == IF outcome = "ok" THEN "True" ELSE "None"
OperationResult(o, outcome) ==
    IF o = "GET" THEN GetResult(outcome) ELSE SetResult(outcome)
OperationOutcomes(o, c) == IF o = "GET" THEN GetOutcomes(c) ELSE SetOutcomes(c)

\* Variant: the executor without its `except RetryError` clause.
executor_except_clauses_none == <<>>

\* The except clause around the retry loop.
executor_except_clauses == <<"tenacity.RetryError">>

\* One pass of `for attempt in retryer`, attempt number n: the event it
\* fires, whether its span ends with status ERROR, and how the loop goes on.
\* A retryable error is re-raised to tenacity, which runs the next attempt
\* or raises RetryError; any other error leaves result = None.
Attempt(o, outcome, n) ==
    IF outcome \notin ErrorKinds
    THEN [fired |-> [exception |-> "None", attempt |-> n], span_error |-> FALSE,
          next |-> "return", result |-> OperationResult(o, outcome)]
    ELSE [fired |-> [exception |-> outcome, attempt |-> n], span_error |-> TRUE,
          next |-> IF RetriesAfter(outcome, n) THEN "retry"
                   ELSE IF ~IsRetryable(outcome) THEN "return"
                   ELSE IF Caught(executor_except_clauses, "tenacity.RetryError")
                        THEN "return"
                   ELSE "raise",
          result |-> "None"]

InitExec ==
    /\ environ \in EnvAttempts
    /\ cfg \in {c \in ExecConfigs :
                 \E g \in GivenAttempts : c.retry_attempts = FromArgs(environ, g)}
    /\ RunIdle
    /\ ExecIdle
    /\ SideIdle
    /\ MixIdle
    /\ ConfigIdle
    /\ DriverIdle

\* The call is entered: result = None and the retryer is built.
ExecuteCall(o) ==
    /\ phase = "idle"
    /\ op' = o
    /\ phase' = "calling"
    /\ returned' = "None"
    /\ UNCHANGED <<cfg, environ, run_vars, outcomes, events, error_spans>>

\* One attempt of the call, from the underlying get()/set() to the retry
\* wait or to the return.
ExecuteAttempt(outcome) ==
    /\ phase = "calling"
    /\ LET a == Attempt(op, outcome, Len(outcomes) + 1)
       IN /\ outcomes' = Append(outcomes, outcome)
          /\ events' = Append(events, a.fired)
          /\ error_spans' = IF a.span_error THEN error_spans + 1 ELSE error_spans
          /\ phase' = IF a.next = "retry" THEN "calling"
                      ELSE IF a.next = "return" THEN "returned" ELSE "raised"
          /\ returned' = a.result
    /\ UNCHANGED <<cfg, environ, run_vars, op>>

NextExec ==
    \/ \E o \in {"GET", "SET"} : ExecuteCall(o)
    \/ \E outcome \in OperationOutcomes(op, cfg) : ExecuteAttempt(outcome)

SpecExec == InitExec /\ [][NextExec]_vars

\* ----------------------- cache_scenario with its keys, labels and backend
\* The users of a run, all connected, with the key and the scenario label of
\* every executor call, against a backend that holds a set of keys.
\* Largest set_keys of a configuration.
SetKeys == 2

\* f"key_{i}" and hashlib.sha256(str(t).encode()).hexdigest(): the digest
\* is taken as injective, and no digest has the form key_<i>.
HitKey(i) == <<"key", i>>
HashKey(t) == <<"sha256", t>>

\* Variant: a draw that can fall one past the upper end.
RandIntPast(a, b) == a..(b + 1)

\* The values random.randint(a, b) may return.
RandInt(a, b) == a..b

\* The `name` cache_scenario passes to the executor on each path.
ScenarioLabel(p) == IF p = "hit" THEN "default" ELSE "dummy"

\* init_cache_set(client, value, ttl, n) on a backend holding `st`: every
\* key_1..key_n that is absent is set.
InitCacheSet(st, n) == st \cup {HitKey(i) : i \in 1..n}

\* What the backend answers to GET k and to SET k, by what it holds.
BackendGet(c, b, st, k) ==
    (IF k \in st THEN {"value"} ELSE {"absent"}) \cup
    (IF b.faults THEN ClientErrors(c) ELSE {})
BackendSet(c, b) == {"ok"} \cup (IF b.faults THEN ClientErrors(c) ELSE {})

\* The resolved configurations of these runs: one cache type of each client
\* family, every hit rate, every set_keys.
MixConfigs ==
    { [cache_type |-> t, host_set |-> TRUE, port_set |-> TRUE, hit_rate |-> h,
       set_keys |-> n] :
      t \in {"redis_cluster", "valkey"}, h \in HitRates, n \in 1..SetKeys }

\* The users that have started when the requests are looked at: the first
\* two, the others are still to be spawned.
Started == {u \in Users : u <= 2}

\* The started users have run on_start and share the one connection; the
\* backend is empty or was populated by init_cache_set, and no key expires
\* during the run (a key that expired before it is one that is not set).
InitMix ==
    /\ cfg \in MixConfigs
    /\ environ = RetryAttempts
    /\ shared_cache_conn = 1
    /\ shared_conn_users = Cardinality(Started)
    /\ conn_lock = 0
    /\ pc = [u \in Users |-> IF u \in Started THEN "running" ELSE "idle"]
    /\ cache_conn = [u \in Users |-> IF u \in Started THEN 1 ELSE None]
    /\ connected = [u \in Users |-> u \in Started]
    /\ raised = [u \in Users |-> FALSE]
    /\ path = [u \in Users |-> "none"]
    /\ attempt = [u \in Users |-> 0]
    /\ total_requests = 0
    /\ cache_hits = 0
    /\ constructed = 1
    /\ failed = 0
    /\ closed = 0
    /\ peak = Cardinality(Started)
    /\ invocations = 0
    /\ hit_gets = 0
    /\ summary = NoSummary
    /\ closed_handles = {}
    /\ io = <<>>
    /\ ExecIdle
    /\ SideIdle
    /\ ConfigIdle
    /\ DriverIdle
    /\ key = [u \in Users |-> <<>>]
    /\ calls = [u \in Users |-> <<>>]
    /\ backend \in [faults : BOOLEAN, populated : {0, SetKeys}]
    /\ store = InitCacheSet({}, backend.populated)
    /\ clock = 0

\* cache_scenario up to the GET: the key is key_<i> on the hit path, the
\* digest of a new clock reading on the miss path.
KeyedIssue(u, draw, i) ==
    /\ ScenarioIssue(u, draw)
    /\ LET p == IF TakesHitPath(draw, cfg) THEN "hit" ELSE "miss"
           k == IF p = "hit" THEN HitKey(i) ELSE HashKey(clock + 1)
       IN /\ key' = [key EXCEPT ![u] = k]
          /\ clock' = IF p = "hit" THEN clock ELSE clock + 1
          /\ calls' = [calls EXCEPT ![u] =
                         <<[op |-> "GET", key |-> k, name |-> ScenarioLabel(p)]>>]
    /\ UNCHANGED <<store, backend>>

\* One GET attempt on the user's key; when the GET returns None the SET of
\* the same key and label is issued, else cache_scenario ends.
KeyedGetAttemptDone(u, outcome) ==
    /\ GetAttemptDone(u, outcome)
    /\ IF RetriesAfter(outcome, attempt[u])
       THEN UNCHANGED <<key, calls>>
       ELSE IF WritesBack(path[u], GetResult(outcome))
       THEN /\ calls' = [calls EXCEPT ![u] = Append(@,
                            [op |-> "SET", key |-> key[u],
                             name |-> ScenarioLabel(path[u])])]
            /\ UNCHANGED key
       ELSE /\ calls' = [calls EXCEPT ![u] = <<>>]
            /\ key' = [key EXCEPT ![u] = <<>>]
    /\ UNCHANGED <<store, clock, backend>>

\* One SET attempt on the user's key; a SET that succeeds stores the key,
\* and when locust_redis_set returns cache_scenario ends.
KeyedSetAttemptDone(u, outcome) ==
    /\ SetAttemptDone(u, outcome)
    /\ store' = IF outcome = "ok" THEN store \cup {key[u]} ELSE store
    /\ IF RetriesAfter(outcome, attempt[u])
       THEN UNCHANGED <<key, calls>>
       ELSE /\ calls' = [calls EXCEPT ![u] = <<>>]
            /\ key' = [key EXCEPT ![u] = <<>>]
    /\ UNCHANGED <<clock, backend>>

NextMix ==
    \E u \in Started :
        \/ \E d \in Draws, i \in RandInt(1, cfg.set_keys) : KeyedIssue(u, d, i)
        \/ \E o \in BackendGet(cfg, backend, store, key[u]) : KeyedGetAttemptDone(u, o)
        \/ \E o \in BackendSet(cfg, backend) : KeyedSetAttemptDone(u, o)
        \/ RetryWake(u) /\ UNCHANGED mix_vars

SpecMix == InitMix /\ [][NextMix]_vars

\* ============================================ config: building and storing
\* from_args calls of one process.
MaxConfigs == 2

\* The command lines: --config with its path or not, followed by the
\* query timeout 5 in one of the spellings the parser of args.py accepts
\* (--query-timeout 5, --query-timeout=5, -q 5, -q=5, -q5, --query-t 5) or
\* not.
ConfigForms == {<<>>, <<Tok(2, "config", FALSE), Tok(0, "c.yaml", FALSE)>>}
TimeoutForms ==
    {<<>>,
     <<Tok(2, "query-timeout", FALSE), Tok(0, "5", FALSE)>>,
     <<Tok(2, "query-timeout", TRUE)>>,
     <<Tok(1, "q", FALSE), Tok(0, "5", FALSE)>>,
     <<Tok(1, "q", TRUE)>>,
     <<Tok(1, "q5", FALSE)>>,
     <<Tok(2, "query-t", FALSE), Tok(0, "5", FALSE)>>}
CommandLines == {c \o t : c \in ConfigForms, t \in TimeoutForms}

\* The option the parser of args.py takes a token for, Absent for a value:
\* a long option by its name or an unambiguous prefix of it, a short one
\* also with its value attached.
OptionOf(token) ==
    CASE token.dash = 2 /\ token.name = "config" -> "config"
      [] token.dash = 1 /\ token.name = "C" -> "config"
      [] token.dash = 2 /\ token.name \in {"query-timeout", "query-t"} -> "query_timeout"
      [] token.dash = 1 /\ token.name \in {"q", "q5"} -> "query_timeout"
      [] OTHER -> Absent
OptionsGiven(tokens) == {OptionOf(tokens[i]) : i \in 1..Len(tokens)} \ {Absent}

\* The inputs of from_args: the Namespace holds what the parser read from
\* the command line (a Namespace built by hand may lack the attribute); a
\* YAML file is read only when --config is given, and only a valid file
\* gives values.
ConfigInputs ==
    { i \in [args : [config : BOOLEAN, query_timeout : {Missing, 1, 5}],
             argv : CommandLines,
             subcommand : {"redis_cluster", "valkey_cluster"},
             os_environ : [CACHE_TYPE : {Absent, "valkey", "bogus"},
                           QUERY_TIMEOUT : {Absent, "0", "2", "abc"}],
             yaml_file : YamlFiles,
             yaml_flat : [cache_type : {Absent, "redis"},
                          query_timeout : {Missing, 0, 4}]] :
        /\ i.args.config = ("config" \in OptionsGiven(i.argv))
        /\ (i.args.query_timeout = 5) = ("query_timeout" \in OptionsGiven(i.argv))
        /\ ~i.args.config => i.yaml_file = "valid"
        /\ (~i.args.config \/ i.yaml_file # "valid") =>
               i.yaml_flat = [cache_type |-> Absent, query_timeout |-> Missing] }

InitConfig ==
    /\ cfg = [cache_type |-> "redis_cluster", host_set |-> TRUE, port_set |-> TRUE,
              hit_rate |-> 50]
    /\ environ = RetryAttempts
    /\ RunIdle
    /\ ExecIdle
    /\ SideIdle
    /\ MixIdle
    /\ \E i \in ConfigInputs :
          /\ args = i.args
          /\ argv = i.argv
          /\ subcommand = i.subcommand
          /\ os_environ = i.os_environ
          /\ yaml_file = i.yaml_file
          /\ yaml_flat = i.yaml_flat
    /\ built = NotBuilt
    /\ objects = 0
    /\ _config = None
    /\ got = NotCalled
    /\ last_call = NoCall
    /\ DriverIdle

\* sys.exit(1) of from_args has not ended the process.
Alive == built.outcome # "SystemExit"

\* AppConfig.from_args(args, cache_type): a new object, or an exception.
FromArgsCall ==
    /\ Alive
    /\ objects < MaxConfigs
    /\ built' = from_args(args, subcommand, os_environ, yaml_flat, argv, yaml_file)
    /\ objects' = IF built'.outcome = "ok" THEN objects + 1 ELSE objects
    /\ got' = NotCalled
    /\ UNCHANGED <<args, argv, subcommand, os_environ, yaml_file, yaml_flat, _config, last_call>>
    /\ UNCHANGED <<cfg, conn_vars, user_vars, counter_vars, history_vars, io, exec_vars,
                   mix_vars, log_vars, driver_vars, side_vars>>

\* set_config(c) with an object built before.
SetConfig(c) ==
    /\ Alive
    /\ c \in 1..objects
    /\ _config' = set_config(c)
    /\ last_call' = [op |-> "set", config |-> c]
    /\ got' = NotCalled
    /\ UNCHANGED <<args, argv, subcommand, os_environ, yaml_file, yaml_flat, built, objects>>
    /\ UNCHANGED <<cfg, conn_vars, user_vars, counter_vars, history_vars, io, exec_vars,
                   mix_vars, log_vars, driver_vars, side_vars>>

\* get_config().
GetConfig ==
    /\ Alive
    /\ got' = get_config(_config)
    /\ UNCHANGED <<args, argv, subcommand, os_environ, yaml_file, yaml_flat, built, objects, _config,
                   last_call>>
    /\ UNCHANGED <<cfg, conn_vars, user_vars, counter_vars, history_vars, io, exec_vars,
                   mix_vars, log_vars, driver_vars, side_vars>>

\* reset_config().
ResetConfig ==
    /\ Alive
    /\ _config' = reset_config(_config)
    /\ last_call' = [op |-> "reset", config |-> None]
    /\ got' = NotCalled
    /\ UNCHANGED <<args, argv, subcommand, os_environ, yaml_file, yaml_flat, built, objects>>
    /\ UNCHANGED <<cfg, conn_vars, user_vars, counter_vars, history_vars, io, exec_vars,
                   mix_vars, log_vars, driver_vars, side_vars>>

NextConfig ==
    \/ FromArgsCall
    \/ \E c \in 1..MaxConfigs : SetConfig(c)
    \/ GetConfig
    \/ ResetConfig

SpecConfig == InitConfig /\ [][NextConfig]_vars

\* ================================================= utils: the run drivers
\* Workers that can register with the master, and polls of the master's
\* wait that are counted.
MaxWorkers == 2
MaxPolls == 2

\* The run configurations: one or two users spawned at either rate, a run of
\* one or two seconds.
RunConfigs ==
    [connections : {1, 2}, spawn_rate : {1, 2}, duration : {1, 2},
     num_workers : 1..MaxWorkers]

\* A driver is called with the configuration set; the users of a local run
\* are the ones of RedisUser, and a master or a worker runs none itself.
InitDriver ==
    /\ cfg \in {c \in Configs : /\ c.hit_rate = 50 /\ c.port_set
                                 /\ c.cache_type \in {"redis_cluster", "valkey"}}
    /\ environ = RetryAttempts
    /\ RunIdle
    /\ ExecIdle
    /\ SideIdle
    /\ MixIdle
    /\ ConfigIdle
    /\ mode \in {"local", "master", "worker"}
    /\ run_config \in RunConfigs
    /\ (mode # "local") =>
          /\ cfg = [cache_type |-> "redis_cluster", host_set |-> TRUE, port_set |-> TRUE,
                    hit_rate |-> 50]
          /\ run_config.connections = 1 /\ run_config.duration = 1
    /\ (mode # "local") => run_config.spawn_rate = 1
    /\ (mode # "master") => run_config.num_workers = 1
    /\ step = 1
    /\ blocked = FALSE
    /\ trace = <<>>
    /\ clients = 0
    /\ greenlet = "none"
    /\ started = NotStarted
    /\ elapsed = 0
    /\ csv = {}
    /\ polls = 0
    /\ intervals = {}

driven_vars == <<cfg, conn_vars, user_vars, counter_vars, history_vars, io, exec_vars,
                 mix_vars, log_vars, config_vars, side_vars>>

Finished == step > Len(Steps(mode))
At(name) == ~Finished /\ Steps(mode)[step] = name /\ ~blocked
Inside(name) == ~Finished /\ Steps(mode)[step] = name /\ blocked
Called(name) == \E i \in 1..Len(trace) : trace[i] = name

\* A call that returns without suspending the driver.
Call(name) ==
    /\ At(name)
    /\ trace' = Append(trace, name)
    /\ step' = step + 1
    /\ UNCHANGED blocked

\* A call that suspends the driver, and its return.
Suspend(name) ==
    /\ At(name)
    /\ trace' = Append(trace, name)
    /\ blocked' = TRUE
    /\ UNCHANGED step
Resume(name) ==
    /\ Inside(name)
    /\ blocked' = FALSE
    /\ step' = step + 1
    /\ UNCHANGED trace

\* setup_otel_tracing()
SetupTracing ==
    /\ Call("setup_otel_tracing")
    /\ UNCHANGED <<driven_vars, mode, run_config, clients, greenlet, started, elapsed, csv,
                   polls, intervals>>

\* The master's wait loop with too few workers: a log line and time.sleep(1).
WaitWorkers ==
    /\ mode = "master"
    /\ At("runner.start")
    /\ ~EnoughWorkers(clients, run_config.num_workers)
    /\ polls' = IF polls < MaxPolls THEN polls + 1 ELSE polls
    /\ intervals' = intervals \cup {PollInterval}
    /\ UNCHANGED <<driven_vars, mode, run_config, step, blocked, trace, clients, greenlet,
                   started, elapsed, csv>>

\* runner.start(user_count=config.connections, spawn_rate=config.spawn_rate),
\* in master mode straight after the wait loop has ended.
RunnerStart ==
    /\ (mode = "master") => EnoughWorkers(clients, run_config.num_workers)
    /\ Call("runner.start")
    /\ started' = [user_count |-> run_config.connections,
                   spawn_rate |-> run_config.spawn_rate, clients |-> clients]
    /\ UNCHANGED <<driven_vars, mode, run_config, clients, greenlet, elapsed, csv, polls,
                   intervals>>

\* gevent.sleep(config.duration): the call, a second going by, the wake-up.
SleepBegin ==
    /\ Suspend("gevent.sleep")
    /\ elapsed' = 0
    /\ UNCHANGED <<driven_vars, mode, run_config, clients, greenlet, started, csv, polls,
                   intervals>>
Tick ==
    /\ Inside("gevent.sleep")
    /\ elapsed < run_config.duration
    /\ elapsed' = elapsed + 1
    /\ UNCHANGED <<driven_vars, mode, run_config, step, blocked, trace, clients, greenlet,
                   started, csv, polls, intervals>>
SleepEnd ==
    /\ elapsed >= run_config.duration
    /\ Resume("gevent.sleep")
    /\ UNCHANGED <<driven_vars, mode, run_config, clients, greenlet, started, elapsed, csv,
                   polls, intervals>>

\* runner.quit(): the users are told to stop; it returns once all have.
QuitBegin ==
    /\ Suspend("runner.quit")
    /\ UNCHANGED <<driven_vars, mode, run_config, clients, greenlet, started, elapsed, csv,
                   polls, intervals>>
QuitEnd ==
    /\ \A u \in Users : pc[u] \in {"idle", "stopped"}
    /\ Resume("runner.quit")
    /\ UNCHANGED <<driven_vars, mode, run_config, clients, greenlet, started, elapsed, csv,
                   polls, intervals>>

\* _log_stats(env.stats)
LogStats ==
    /\ Call("_log_stats")
    /\ UNCHANGED <<driven_vars, mode, run_config, clients, greenlet, started, elapsed, csv,
                   polls, intervals>>

\* save_results_to_csv(env.stats, filename=...)
SaveCsv ==
    /\ Call("save_results_to_csv")
    /\ csv' = csv \cup {CsvName(mode)}
    /\ UNCHANGED <<driven_vars, mode, run_config, clients, greenlet, started, elapsed, polls,
                   intervals>>

\* shutdown_otel_tracing()
ShutdownTracing ==
    /\ Call("shutdown_otel_tracing")
    /\ UNCHANGED <<driven_vars, mode, run_config, clients, greenlet, started, elapsed, csv,
                   polls, intervals>>

\* WorkerRunner(...) spawns its greenlet, then runner.greenlet.join().
WorkerJoin ==
    /\ Suspend("runner.greenlet.join")
    /\ greenlet' = "running"
    /\ UNCHANGED <<driven_vars, mode, run_config, clients, started, elapsed, csv, polls,
                   intervals>>
WorkerJoinEnd ==
    /\ greenlet = "ended"
    /\ Resume("runner.greenlet.join")
    /\ UNCHANGED <<driven_vars, mode, run_config, clients, greenlet, started, elapsed, csv,
                   polls, intervals>>

\* The worker's greenlet ends (the master told it to quit, or is gone).
GreenletEnds ==
    /\ greenlet = "running"
    /\ greenlet' = "ended"
    /\ UNCHANGED <<driven_vars, mode, run_config, step, blocked, trace, clients, started,
                   elapsed, csv, polls, intervals>>

\* A worker registers with the master, or is removed from runner.clients.
WorkerRegisters ==
    /\ mode = "master"
    /\ Called("setup_otel_tracing") /\ ~Finished
    /\ clients < MaxWorkers
    /\ clients' = clients + 1
    /\ UNCHANGED <<driven_vars, mode, run_config, step, blocked, trace, greenlet, started,
                   elapsed, csv, polls, intervals>>
WorkerLeaves ==
    /\ mode = "master"
    /\ ~Finished
    /\ clients > 0
    /\ clients' = clients - 1
    /\ UNCHANGED <<driven_vars, mode, run_config, step, blocked, trace, greenlet, started,
                   elapsed, csv, polls, intervals>>

\* The users of a local run: spawned once the runner was started, stopped
\* by runner.quit(); a user finishes the step it is suspended in.
Spawning == mode = "local" /\ Called("runner.start") /\ ~Called("runner.quit")
Stopping == mode = "local" /\ Inside("runner.quit")

NextDriver ==
    \/ SetupTracing
    \/ WaitWorkers
    \/ RunnerStart
    \/ SleepBegin
    \/ Tick
    \/ SleepEnd
    \/ QuitBegin
    \/ QuitEnd
    \/ LogStats
    \/ SaveCsv
    \/ ShutdownTracing
    \/ WorkerJoin
    \/ WorkerJoinEnd
    \/ GreenletEnds
    \/ WorkerRegisters
    \/ WorkerLeaves
    \/ \E u \in Users :
        \/ Spawning /\ u <= started.user_count /\ OnStartShared(u)
        \/ Spawning /\ u <= started.user_count /\ OnStartConstruct(u)
        \/ \E o \in ConstructOutcomes(cfg) : ConstructDone(u, o)
        \/ Spawning /\ ScenarioAbstain(u) /\ UNCHANGED mix_vars
        \/ \E d \in Draws : Spawning /\ ScenarioIssue(u, d) /\ UNCHANGED mix_vars
        \/ \E o \in GetOutcomes(cfg) : GetAttemptDone(u, o) /\ UNCHANGED mix_vars
        \/ \E o \in SetOutcomes(cfg) : SetAttemptDone(u, o) /\ UNCHANGED mix_vars
        \/ RetryWake(u) /\ UNCHANGED mix_vars
        \/ Stopping /\ OnStopUnconnected(u)
        \/ Stopping /\ OnStopKeep(u)
        \/ Stopping /\ OnStopClose(u)
        \/ \E o \in CloseOutcomes(cfg) : CloseDone(u, o)

SpecDriver == InitDriver /\ [][NextDriver]_vars

\* ===================== the init entry points of main and init_cache_set
\* The runs of one entry point against the same backend that are looked at.
MaxRuns == 2

\* The four init entry points, and init_cache_set called on its own.
InitFuncs ==
    {"init_redis_load_test", "init_valkey_load_test", "init_redis_standalone_load_test",
     "init_valkey_standalone_load_test"}
EntryFuncs == InitFuncs \cup {"init_cache_set"}

\* The client library an entry point connects with, as a cache type.
FuncCacheType(f) ==
    CASE f = "init_redis_load_test" -> "redis_cluster"
      [] f = "init_valkey_load_test" -> "valkey_cluster"
      [] f = "init_redis_standalone_load_test" -> "redis"
      [] f = "init_valkey_standalone_load_test" -> "valkey"
      [] OTHER -> "redis_cluster"

\* cache.<type>_connect() as each entry point calls it.
ConnectOf(f, c, outcome, fresh) ==
    CASE f = "init_redis_load_test" -> redis_connect(c, outcome, fresh)
      [] f = "init_valkey_load_test" -> valkey_connect(c, outcome, fresh)
      [] f = "init_redis_standalone_load_test" -> redis_standalone_connect(c, outcome, fresh)
      [] f = "init_valkey_standalone_load_test" -> valkey_standalone_connect(c, outcome, fresh)
      [] OTHER -> Returned(None)

\* One call the entry point made: its name, and the i of key_i for GET / SET.
Made(name, k) == [op |-> name, key |-> k]
IsCacheOp(m) == m.op \in {"GET", "SET"}

\* An exception (or none) leaves init_cache_set: inside an entry point the
\* finally block comes next; called on its own the call is over, with exit
\* status 1 for SystemExit(1).
Leave(e, x) ==
    IF e.func = "init_cache_set"
    THEN [e EXCEPT !.pc = "done", !.exc = x, !.returned = (x = "none"),
                   !.code = IF x = "none" THEN 0 ELSE 1]
    ELSE [e EXCEPT !.pc = "close", !.exc = x, !.returned = (x = "none")]

\* The for loop of init_cache_set after key_i is dealt with.
AfterKey(e) ==
    IF e.i = e.set_keys THEN Leave(e, "none") ELSE [e EXCEPT !.i = e.i + 1, !.pc = "get"]

\* Variant: an exception of a GET or SET that is swallowed, the loop going
\* on with the next key.
OnExceptionContinue(e, n) == AfterKey([e EXCEPT !.failed_at = n])
\* `except Exception`: the n-th GET / SET of the run raised; the exception
\* is recorded on the span and logged, then sys.exit(1).
OnException(e, n) == Leave([e EXCEPT !.failed_at = n], "SystemExit")

\* Variant: a SET for every key, whatever GET returned.
NeedsSetAlways(answer) == answer \in {"absent", "value"}
\* `if cache_client.get(key) is None`.
NeedsSet(answer) == answer = "absent"

\* One run starts: the backend holds any of the keys (set by an earlier init
\* or not expired yet); no key expires while init runs or between two runs.
InitInit ==
    /\ cfg \in {c \in Configs : c.hit_rate = 50}
    /\ environ = RetryAttempts
    /\ RunIdle
    /\ ExecIdle
    /\ MixIdle
    /\ ConfigIdle
    /\ DriverIdle
    /\ OtelIdle
    /\ present \in SUBSET {HitKey(k) : k \in 1..SetKeys}
    /\ issued = <<>>
    /\ \E f \in EntryFuncs, n \in 1..SetKeys, client \in {None, 1} :
          /\ (f \in InitFuncs) => (cfg.cache_type = FuncCacheType(f) /\ client = None)
          /\ (f = "init_cache_set") =>
                (cfg.cache_type \in {"redis_cluster", "valkey"} /\ cfg.host_set /\ cfg.port_set)
          /\ entry = [func |-> f,
                      pc |-> IF f = "init_cache_set" THEN "init_cache_set"
                             ELSE "setup_otel_tracing",
                      cache_client |-> client, set_keys |-> n, i |-> 0, exc |-> "none",
                      code |-> -1, returned |-> FALSE, failed_at |-> 0, run |-> 1,
                      clean |-> FALSE, before |-> present]

init_frame == <<cfg, conn_vars, user_vars, counter_vars, history_vars, io, exec_vars,
                mix_vars, log_vars, config_vars, driver_vars, otel_vars>>

\* setup_otel_tracing() at the head of an entry point.
EntrySetup ==
    /\ entry.pc = "setup_otel_tracing"
    /\ entry' = [entry EXCEPT !.pc = "connect"]
    /\ issued' = Append(issued, Made("setup_otel_tracing", 0))
    /\ UNCHANGED <<present, init_frame>>

\* CacheConnect().<type>_connect() and the null check after it.
EntryConnect ==
    /\ entry.pc = "connect"
    /\ \E o \in ConstructOutcomes(cfg) :
          LET r == ConnectOf(entry.func, cfg, o, 1)
          IN  entry' = IF r.raised
                       THEN [entry EXCEPT !.pc = "done", !.exc = o, !.code = 1]
                       ELSE IF r.conn = None
                       THEN [entry EXCEPT !.pc = "done", !.exc = "SystemExit", !.code = 1]
                       ELSE [entry EXCEPT !.pc = "init_cache_set", !.cache_client = r.conn]
    /\ issued' = Append(issued, Made("connect", 0))
    /\ UNCHANGED <<present, init_frame>>

\* init_cache_set is entered: sys.exit(1) for a null client, else the loop
\* starts at key_1.
InitCacheSetEnter ==
    /\ entry.pc = "init_cache_set"
    /\ entry' = IF entry.cache_client = None THEN Leave(entry, "SystemExit")
                ELSE [entry EXCEPT !.pc = "get", !.i = 1]
    /\ issued' = Append(issued, Made("init_cache_set", 0))
    /\ UNCHANGED <<present, init_frame>>

\* cache_client.get(key_i): absent leads to the SET, a value to the next
\* key, an exception to sys.exit(1).
InitGet ==
    /\ entry.pc = "get"
    /\ \E o \in BackendGet(cfg, [faults |-> TRUE], present, HitKey(entry.i)) :
          entry' = IF o \in {"absent", "value"}
                   THEN IF NeedsSet(o) THEN [entry EXCEPT !.pc = "set"] ELSE AfterKey(entry)
                   ELSE OnException(entry, Len(SelectSeq(issued, IsCacheOp)) + 1)
    /\ issued' = Append(issued, Made("GET", entry.i))
    /\ UNCHANGED <<present, init_frame>>

\* cache_client.set(key_i, value, ex=ttl): a SET that raised may or may not
\* have reached the backend.
InitSet ==
    /\ entry.pc = "set"
    /\ \E o \in BackendSet(cfg, [faults |-> TRUE]) :
          IF o = "ok"
          THEN /\ entry' = AfterKey(entry)
               /\ present' = present \cup {HitKey(entry.i)}
          ELSE /\ entry' = OnException(entry, Len(SelectSeq(issued, IsCacheOp)) + 1)
               /\ present' \in {present, present \cup {HitKey(entry.i)}}
    /\ issued' = Append(issued, Made("SET", entry.i))
    /\ UNCHANGED init_frame

\* finally: cache_client.close(); an exception it raises replaces the one in
\* flight and skips the rest of the block.
EntryClose ==
    /\ entry.pc = "close"
    /\ \E o \in CloseOutcomes(cfg) :
          entry' = IF o = "ok" THEN [entry EXCEPT !.pc = "shutdown_otel_tracing"]
                   ELSE [entry EXCEPT !.pc = "done", !.exc = o, !.code = 1]
    /\ issued' = Append(issued, Made("close", 0))
    /\ UNCHANGED <<present, init_frame>>

\* finally: shutdown_otel_tracing(); then the exception in flight, if any,
\* ends the process.
EntryShutdown ==
    /\ entry.pc = "shutdown_otel_tracing"
    /\ entry' = [entry EXCEPT !.pc = "done", !.code = IF entry.exc = "none" THEN 0 ELSE 1]
    /\ issued' = Append(issued, Made("shutdown_otel_tracing", 0))
    /\ UNCHANGED <<present, init_frame>>

\* The same command is run again at once, against the backend as it is.
RunAgain ==
    /\ entry.pc = "done"
    /\ entry.run < MaxRuns
    /\ entry' = [entry EXCEPT !.pc = IF entry.func = "init_cache_set" THEN "init_cache_set"
                                      ELSE "setup_otel_tracing",
                              !.cache_client = IF entry.func = "init_cache_set"
                                               THEN entry.cache_client ELSE None,
                              !.i = 0, !.exc = "none", !.code = -1, !.returned = FALSE,
                              !.failed_at = 0,
                              !.run = entry.run + 1, !.clean = entry.returned,
                              !.before = present]
    /\ issued' = <<>>
    /\ UNCHANGED <<present, init_frame>>

NextInit ==
    \/ EntrySetup
    \/ EntryConnect
    \/ InitCacheSetEnter
    \/ InitGet
    \/ InitSet
    \/ EntryClose
    \/ EntryShutdown
    \/ RunAgain

SpecInit == InitInit /\ [][NextInit]_vars

\* ======================================= otel_setup: setup and shutdown
\* The setup / shutdown calls of one process that are looked at.
MaxOtelCalls == 3

\* The except clauses of the two try blocks.
setup_otel_tracing_clauses == <<"ConnectionError", "OSError", "ValueError">>
shutdown_otel_tracing_clauses == <<"OSError", "TimeoutError">>

\* What the SDK calls inside the try blocks can raise: the classes the
\* handlers name and classes they do not name (none of these two derives
\* from a named one).
OtelErrors ==
    {"ConnectionError", "OSError", "ValueError", "TimeoutError", "RuntimeError", "TypeError"}

\* isinstance for the builtin classes above: ConnectionError and
\* TimeoutError derive from OSError.
IsBuiltinInstance(kind, cls) ==
    \/ kind = cls
    \/ cls = "OSError" /\ kind \in {"ConnectionError", "TimeoutError"}
CaughtBy(clauses, kind) == \E i \in 1..Len(clauses) : IsBuiltinInstance(kind, clauses[i])

\* What the try block of setup_otel_tracing can end with: no error, or an
\* error raised before or after the TracerProvider was made; and likewise
\* for shutdown_otel_tracing, raised by get_tracer_provider, force_flush or
\* shutdown.
SetupOutcomes ==
    {[error |-> "none", stage |-> "end"]} \cup
    [error : OtelErrors, stage : {"resource", "exporter"}]
ShutdownOutcomes ==
    {[error |-> "none", stage |-> "end"]} \cup
    [error : OtelErrors, stage : {"get_tracer_provider", "force_flush", "shutdown"}]
MetricsOutcomes == {"ok", "Exception"}

\* setup_otel_metrics(): the value of _metrics_initialized after it.
setup_otel_metrics(mi, c, sw, outcome) ==
    IF mi THEN TRUE
    ELSE IF ~sw.metrics_enabled THEN FALSE
    ELSE IF IsValkey(c) THEN FALSE
    ELSE outcome = "ok"

\* shutdown_otel_metrics(): the value of _metrics_initialized after it.
shutdown_otel_metrics(mi, outcome) ==
    IF ~mi THEN FALSE ELSE outcome # "ok"

\* `if _otel_initialized:` at the head of setup_otel_tracing.
AlreadyInitialized(flag) == flag

\* setup_otel_tracing(): its return value (FALSE also when it returns
\* nothing), the flag after it, the TracerProviders it made, the error of
\* its try block and the error that leaves the function: one the except
\* clause does not catch.
setup_otel_tracing(flag, sw, outcome) ==
    IF AlreadyInitialized(flag)
    THEN [result |-> TRUE, flag |-> flag, made |-> 0, error |-> "none", raised |-> "none"]
    ELSE IF ~sw.tracing_enabled
    THEN [result |-> FALSE, flag |-> flag, made |-> 0, error |-> "none", raised |-> "none"]
    ELSE IF outcome.error = "none"
    THEN [result |-> TRUE, flag |-> TRUE, made |-> 1, error |-> "none", raised |-> "none"]
    ELSE [result |-> FALSE, flag |-> flag,
          made |-> IF outcome.stage = "resource" THEN 0 ELSE 1, error |-> outcome.error,
          raised |-> IF CaughtBy(setup_otel_tracing_clauses, outcome.error)
                     THEN "none" ELSE outcome.error]

\* shutdown_otel_tracing(): its return value (FALSE also when it returns
\* nothing), the flag after it, the force_flush and shutdown calls it made
\* on the provider, the error of its try block and the error that leaves
\* the function.
shutdown_otel_tracing(flag, outcome) ==
    IF ~flag THEN [result |-> FALSE, flag |-> flag, flushed |-> 0, shut |-> 0,
                   error |-> "none", raised |-> "none"]
    ELSE IF outcome.error = "none"
    THEN [result |-> TRUE, flag |-> FALSE, flushed |-> 1, shut |-> 1, error |-> "none",
          raised |-> "none"]
    ELSE [result |-> FALSE, flag |-> flag, error |-> outcome.error,
          raised |-> IF CaughtBy(shutdown_otel_tracing_clauses, outcome.error)
                     THEN "none" ELSE outcome.error,
          flushed |-> IF outcome.stage = "get_tracer_provider" THEN 0 ELSE 1,
          shut |-> IF outcome.stage = "shutdown" THEN 1 ELSE 0]

\* A process whose configuration is set, with any tracing switches.
InitOtel ==
    /\ cfg \in {c \in Configs : c.hit_rate = 50 /\ c.host_set /\ c.port_set}
    /\ environ = RetryAttempts
    /\ RunIdle
    /\ ExecIdle
    /\ MixIdle
    /\ ConfigIdle
    /\ DriverIdle
    /\ InitIdle
    /\ _otel_initialized = FALSE
    /\ _metrics_initialized = FALSE
    /\ \E t \in BOOLEAN, m \in BOOLEAN : otel = OtelSwitches(t, m)

otel_frame == <<cfg, conn_vars, user_vars, counter_vars, history_vars, io, exec_vars,
                mix_vars, log_vars, config_vars, driver_vars, init_vars>>

\* One call of setup_otel_tracing(); armed records that a setup with tracing
\* enabled has returned True and no shutdown has returned True since.
SetupOtelTracing ==
    /\ otel.calls < MaxOtelCalls
    /\ \E o \in SetupOutcomes, mo \in MetricsOutcomes :
          LET r == setup_otel_tracing(_otel_initialized, otel, o)
          IN  /\ _otel_initialized' = r.flag
              /\ _metrics_initialized' =
                    IF o.error = "none" \/ _otel_initialized \/ ~otel.tracing_enabled
                    THEN setup_otel_metrics(_metrics_initialized, cfg, otel, mo)
                    ELSE _metrics_initialized
              /\ otel' = [otel EXCEPT !.calls = @ + 1,
                                      !.armed = IF r.result /\ otel.tracing_enabled
                                                THEN TRUE ELSE @,
                                      !.created = @ + r.made,
                                      !.last = [fn |-> "setup_otel_tracing",
                                                was |-> _otel_initialized,
                                                error |-> r.error, raised |-> r.raised,
                                                result |-> r.result,
                                                made |-> r.made, flushed |-> 0,
                                                shut |-> 0]]
    /\ UNCHANGED otel_frame

\* One call of shutdown_otel_tracing().
ShutdownOtelTracing ==
    /\ otel.calls < MaxOtelCalls
    /\ \E o \in ShutdownOutcomes, mo \in MetricsOutcomes :
          LET r == shutdown_otel_tracing(_otel_initialized, o)
          IN  /\ _otel_initialized' = r.flag
              /\ _metrics_initialized' = shutdown_otel_metrics(_metrics_initialized, mo)
              /\ otel' = [otel EXCEPT !.calls = @ + 1,
                                      !.armed = IF r.result THEN FALSE ELSE @,
                                      !.last = [fn |-> "shutdown_otel_tracing",
                                                was |-> _otel_initialized,
                                                error |-> r.error, raised |-> r.raised,
                                                result |-> r.result,
                                                made |-> 0, flushed |-> r.flushed,
                                                shut |-> r.shut]]
    /\ UNCHANGED otel_frame

NextOtel ==
    \/ SetupOtelTracing
    \/ ShutdownOtelTracing

SpecOtel == InitOtel /\ [][NextOtel]_vars

\* =============================== locust_cache: the backend family labels
\* os.environ.get("CACHE_TYPE", "redis_cluster").
EnvCacheType(env) == IF env.CACHE_TYPE = Absent THEN "redis_cluster" ELSE env.CACHE_TYPE

\* The request_type of every stats event and the db.system of every span
\* the executor emits, read from the environment at each call.
_get_request_type(env) ==
    IF EnvCacheType(env) \in {"valkey_cluster", "valkey"} THEN "Valkey" ELSE "Redis"
_get_db_system(env) ==
    IF EnvCacheType(env) \in {"valkey_cluster", "valkey"} THEN "valkey" ELSE "redis"

\* ================================ RedisUser: the lock, with fair returns
\* The lifecycle of the users alone, on_stop possibly called again on a
\* stopped user, where a construction and a close() that were started do
\* return (with a client, a value or an error).
ConstructReturns == \E u \in Users, o \in ConstructOutcomes(cfg) : ConstructDone(u, o)
CloseReturns == \E u \in Users, o \in CloseOutcomes(cfg) : CloseDone(u, o)
\* on_stop called again on a user that has stopped, up to the first
\* suspension point: `if self._connected` decides whether it releases.
OnStopAgain(u) ==
    /\ pc[u] = "stopped"
    /\ ~raised[u]
    /\ summary' = NoSummary
    /\ IF ~connected[u]
       THEN /\ io' = <<"on_stop_again">>
            /\ UNCHANGED <<conn_vars, connected, pc, closed, closed_handles>>
       ELSE /\ Acquirable(conn_lock)
            /\ shared_conn_users' = shared_conn_users - 1
            /\ IF ReleaseCloses(shared_conn_users - 1, shared_cache_conn)
               THEN /\ conn_lock' = u
                    /\ closed' = closed + 1
                    /\ closed_handles' = closed_handles \cup {shared_cache_conn}
                    /\ pc' = [pc EXCEPT ![u] = "closing"]
                    /\ io' = <<"close">>
                    /\ UNCHANGED <<shared_cache_conn, connected>>
               ELSE /\ connected' = [connected EXCEPT ![u] = ConnectedAfterRelease]
                    /\ io' = <<"on_stop_again">>
                    /\ UNCHANGED <<shared_cache_conn, conn_lock, pc, closed, closed_handles>>
    /\ UNCHANGED <<cfg, aux_vars, exec_vars, mix_vars, cache_conn, raised, path, attempt,
                   counter_vars, constructed, failed, peak, invocations, hit_gets>>

LifecycleAgain == Lifecycle \/ \E u \in Users : OnStopAgain(u)

SpecLock ==
    /\ Init
    /\ [][LifecycleAgain]_vars
    /\ WF_vars(ConstructReturns)
    /\ WF_vars(CloseReturns)

\* ============================================== main: from main() to a run
\* The functions main() dispatches to with args.func(args).
LoadTestFuncs ==
    {"redis_load_test", "valkey_load_test", "redis_standalone_load_test",
     "valkey_standalone_load_test"}
ClusterFuncs ==
    {"cluster_redis_load_test", "cluster_valkey_load_test",
     "cluster_redis_standalone_load_test", "cluster_valkey_standalone_load_test"}
MainFuncs == LoadTestFuncs \cup ClusterFuncs \cup InitFuncs

\* args.cluster_mode: not given, one of the two roles, or another string.
ClusterModes == {"none", "master", "worker", "other"}

\* The value a load-test entry point assigns to os.environ["CACHE_TYPE"].
MainCacheType(f) ==
    CASE f \in {"redis_load_test", "cluster_redis_load_test"} -> "redis_cluster"
      [] f \in {"valkey_load_test", "cluster_valkey_load_test"} -> "valkey_cluster"
      [] f \in {"redis_standalone_load_test", "cluster_redis_standalone_load_test"} -> "redis"
      [] OTHER -> "valkey"

\* A process at the head of main(): nothing stored in config._config, no
\* tracing set up, the command line naming one entry point or none.
InitMain ==
    /\ cfg \in {c \in Configs : c.hit_rate = 50 /\ c.host_set /\ c.port_set}
    /\ environ = RetryAttempts
    /\ RunIdle
    /\ ExecIdle
    /\ MixIdle
    /\ DriverIdle
    /\ OtelIdle
    /\ args = [config |-> FALSE, query_timeout |-> query_timeout_default]
    /\ argv = <<>>
    /\ subcommand = "redis_cluster"
    /\ os_environ \in [CACHE_TYPE : {Absent, "redis_cluster", "valkey"}, QUERY_TIMEOUT : {Absent}]
    /\ yaml_file = "valid"
    /\ yaml_flat = [cache_type |-> Absent, query_timeout |-> Missing]
    /\ built = NotBuilt
    /\ objects = 0
    /\ _config = None
    /\ got = NotCalled
    /\ last_call = NoCall
    /\ present = {}
    /\ issued = <<>>
    /\ \E f \in MainFuncs \cup {"none"} : entry = [NoEntry EXCEPT !.func = f, !.pc = "main"]

main_frame == <<cfg, conn_vars, user_vars, counter_vars, history_vars, io, exec_vars,
                mix_vars, log_vars, otel_vars, present, args, argv, subcommand, yaml_file,
                yaml_flat, built, objects, _config, last_call, run_config, step, blocked,
                trace, clients, greenlet, started, elapsed, csv, polls, intervals>>

\* main(): args.func(args) when a command and a subcommand were given, else
\* the help text and exit 1.
MainDispatch ==
    /\ entry.pc = "main"
    /\ entry' = IF entry.func = "none"
                THEN [entry EXCEPT !.pc = "done", !.exc = "SystemExit", !.code = 1]
                ELSE [entry EXCEPT !.pc = "entry"]
    /\ UNCHANGED <<main_frame, issued, mode, os_environ, got>>

\* The head of an entry point: the cluster-mode check of the cluster entry
\* points, set_env_vars(args), set_env_cache_retry(args) and, in a load
\* test, the assignment of os.environ["CACHE_TYPE"]. Neither helper stores
\* a configuration.
EntryHead ==
    /\ entry.pc = "entry"
    /\ \E cm \in ClusterModes :
          IF entry.func \in ClusterFuncs /\ cm \notin {"master", "worker"}
          THEN /\ entry' = [entry EXCEPT !.pc = "done", !.exc = "SystemExit", !.code = 1]
               /\ UNCHANGED <<issued, mode, os_environ>>
          ELSE /\ entry' = [entry EXCEPT !.pc = "first_get_config"]
               /\ issued' = <<Made("set_env_vars", 0), Made("set_env_cache_retry", 0)>>
               /\ mode' = IF entry.func \in ClusterFuncs THEN cm ELSE "local"
               /\ os_environ' = IF entry.func \in InitFuncs THEN os_environ
                                ELSE [os_environ EXCEPT !.CACHE_TYPE = MainCacheType(entry.func)]
    /\ UNCHANGED <<main_frame, got>>

\* setup_otel_tracing(), the first call of every run driver and of every
\* init entry point: with _otel_initialized False it calls get_config(),
\* outside any try block.
FirstGetConfig ==
    /\ entry.pc = "first_get_config"
    /\ ~_otel_initialized
    /\ got' = get_config(_config)
    /\ issued' = Append(issued, Made("setup_otel_tracing", 0))
    /\ entry' = IF get_config(_config).raised = "none"
                THEN [entry EXCEPT !.pc = "configured"]
                ELSE [entry EXCEPT !.pc = "done", !.exc = get_config(_config).raised, !.code = 1]
    /\ UNCHANGED <<main_frame, mode, os_environ>>

NextMain ==
    \/ MainDispatch
    \/ EntryHead
    \/ FirstGetConfig

SpecMain == InitMain /\ [][NextMain]_vars

\* ======================================================= checked claims
AllStopped == \A u \in Users : pc[u] = "stopped"
NoneInside == conn_lock = 0

\* C1: for every interleaving of acquires and releases, a client is
\* constructed only while no user holds a reference, close() is called in
\* exactly the releases that take the count from 1 to 0, never while the
\* count is above 0, and the count is never negative; users that all hold
\* the connection at once and then all release cause exactly one
\* construction and exactly one close().
C1_RefCountedConnection ==
    /\ [](shared_conn_users >= 0)
    /\ []((\E u \in Users : pc[u] = "closing") => shared_conn_users = 0)
    /\ []((AllStopped /\ peak = NumUsers) => (constructed = 1 /\ closed = 1))
    /\ [][ /\ (constructed' # constructed) =>
                (constructed' = constructed + 1 /\ NumConnected(connected) = 0
                 /\ shared_cache_conn = None)
           /\ closed' \in {closed, closed + 1}
           /\ (closed' = closed + 1) <=>
                (shared_conn_users = 1 /\ shared_conn_users' = 0) ]_vars

\* C1 witness: every user held the connection at once, all have released,
\* one client was constructed and closed.
C1_Witness ==
    AllStopped /\ peak = NumUsers /\ constructed = 1 /\ closed = 1
    /\ shared_cache_conn = None

\* C2 as stated: the handle is not null whenever the count is above 0, and
\* at most one handle is live.
C2_HandleNonNullWhileCounted ==
    /\ shared_conn_users > 0 => shared_cache_conn # None
    /\ constructed - closed <= 1

\* C3 as stated: the count is never negative and, outside acquire and
\* release, it is above 0 exactly when there is a handle.
C3_CountConsistentWithHandle ==
    /\ shared_conn_users >= 0
    /\ NoneInside => ((shared_conn_users > 0) <=> (shared_cache_conn # None))

\* C4 as stated: in a run that constructed a client, once every started
\* user has run on_stop the handle is null and the count is 0.
C4_TornDownAfterLastStop ==
    ((\A u \in Users : pc[u] \in {"idle", "stopped"}) /\ constructed >= 1)
        => (shared_cache_conn = None /\ shared_conn_users = 0)

\* C5: whatever connect operation the configuration selects, a construction
\* that fails with any error kind, or with host or port unset, raises
\* nothing: the acquire ends in that same step, without another connect,
\* with a null handle for the user and for the class.
C5_FailedConstructionYieldsNull ==
    /\ [](\A u \in Users : ~raised[u])
    /\ [][ \A u \in Users :
             (pc[u] = "constructing" /\ pc'[u] # "constructing"
              /\ constructed' = constructed)
                => /\ pc'[u] = "running"
                   /\ cache_conn'[u] = None
                   /\ shared_cache_conn' = None
                   /\ ~connected'[u]
                   /\ conn_lock' = 0
                   /\ io' = <<"connect_failed">>
                   /\ failed' = failed + 1 ]_vars

\* C5 witness: with host and port set a construction has failed and its user
\* runs with a null handle.
C5_Witness ==
    /\ cfg.host_set /\ cfg.port_set
    /\ io = <<"connect_failed">>
    /\ \E u \in Users : pc[u] = "running" /\ cache_conn[u] = None

\* C6: a release whose close() raises propagates nothing and leaves the
\* handle null, the count 0 and the lock free; the next client is a new one,
\* constructed by the acquire that finds the handle null.
C6_CloseErrorSwallowed ==
    /\ [](\A u \in Users : pc[u] = "stopped" => ~raised[u])
    /\ [][ /\ \A u \in Users :
                (pc[u] = "closing" /\ pc'[u] # "closing")
                   => /\ shared_cache_conn' = None
                      /\ shared_conn_users' = 0
                      /\ conn_lock' = 0
                      /\ pc'[u] = "stopped" /\ ~connected'[u]
           /\ \A u \in Users :
                (pc[u] = "idle" /\ pc'[u] # "idle" /\ closed >= 1
                 /\ shared_cache_conn = None)
                   => pc'[u] = "constructing"
           /\ (io' = <<"connect_ok">> /\ closed >= 1)
                => (shared_cache_conn' = constructed' /\ constructed' >= 2) ]_vars

\* C6 witness: the close() of the last release raised; the handle is null,
\* the count 0 and the lock free, and the releasing user has stopped.
C6_Witness ==
    /\ io = <<"close_error">> /\ closed = 1
    /\ shared_cache_conn = None /\ shared_conn_users = 0 /\ conn_lock = 0
    /\ \E u \in Users : pc[u] = "stopped" /\ cache_conn[u] # None

\* C7: 0 <= cache_hits <= total_requests; neither counter decreases;
\* total_requests grows by exactly 1 in the step that begins an invocation,
\* on every branch, and in no other step.
C7_CounterConsistency ==
    /\ [](0 <= cache_hits /\ cache_hits <= total_requests)
    /\ [][ /\ cache_hits' >= cache_hits
           /\ total_requests' >= total_requests
           /\ total_requests' - total_requests = invocations' - invocations
           /\ invocations' - invocations \in {0, 1} ]_vars

\* C7 witness: a counted hit, then a miss-path request whose GET came back
\* absent and whose SET is in flight.
C7_Witness ==
    /\ total_requests = 2 /\ cache_hits = 1
    /\ \E u \in Users : pc[u] = "set" /\ path[u] = "miss"

\* C8: cache_hits grows, by exactly 1, in exactly the steps in which a
\* hit-path GET comes back with a value.
C8_HitIffHitPathValue ==
    [][ /\ cache_hits' \in {cache_hits, cache_hits + 1}
        /\ (cache_hits' = cache_hits + 1) <=>
             (\E u \in Users :
                /\ pc[u] = "get" /\ path[u] = "hit"
                /\ pc'[u] # "get"
                /\ io'[1] = "get_value") ]_vars

\* C8 witness: one hit was counted, and a hit-path request whose GET came
\* back without a value is writing back.
C8_Witness ==
    /\ cache_hits = 1 /\ hit_gets = 1 /\ total_requests = 2
    /\ \E u \in Users : pc[u] = "set" /\ path[u] = "hit"

\* C9: when no invocation is in flight, total_requests is the number of
\* invocations and cache_hits the number of hit-path GETs that returned a
\* value.
C9_NoLostIncrement ==
    (\A u \in Users : pc[u] \notin Requesting)
        => (total_requests = invocations /\ cache_hits = hit_gets)

\* C9 witness: every request of the run has completed and two were hits.
C9_Witness ==
    /\ \A u \in Users : pc[u] = "running" /\ HasConnection(u)
    /\ invocations = MaxRequests /\ total_requests = MaxRequests
    /\ cache_hits >= 2

\* C10: a user whose handle is null never has a GET or SET in flight; the
\* step of its invocation receives, fires and issues nothing, leaves
\* cache_hits alone and adds 1 to total_requests; and while no construction
\* has succeeded every handle is null, cache_hits is 0 and nothing is raised.
C10_AbstainWithoutConnection ==
    /\ [](\A u \in Users : cache_conn[u] = None => pc[u] \notin Requesting)
    /\ [](constructed = 0 =>
            /\ cache_hits = 0
            /\ \A u \in Users : cache_conn[u] = None /\ ~raised[u])
    /\ [][ (invocations' # invocations /\ pc' = pc) =>
              /\ \E u \in Users : pc[u] = "running" /\ cache_conn[u] = None
              /\ io' = <<>>
              /\ cache_hits' = cache_hits
              /\ total_requests' = total_requests + 1 ]_vars

\* C10 witness: every construction failed and requests were counted.
C10_Witness ==
    /\ constructed = 0 /\ failed = NumUsers
    /\ total_requests >= 2 /\ cache_hits = 0
    /\ \A u \in Users : pc[u] = "running" /\ cache_conn[u] = None

\* The answer of the call's last attempt, and the last event it fired.
LastOutcome == outcomes[Len(outcomes)]
LastEvent == events[Len(events)]

\* C11: no exception raised by a cache operation leaves locust_redis_get or
\* locust_redis_set. Whatever the error (retryable with the attempts used
\* up, or not retryable) the call returns None, having fired an event that
\* carries the error; on success it returns what the operation returned.
C11_NoExceptionPropagates ==
    /\ phase # "raised"
    /\ phase = "returned" =>
         /\ events # <<>>
         /\ IF LastOutcome \in ErrorKinds
            THEN returned = "None" /\ LastEvent.exception = LastOutcome
            ELSE /\ LastEvent.exception = "None"
                 /\ op = "GET" /\ LastOutcome = "value" => returned = "value"
                 /\ op = "GET" /\ LastOutcome = "absent" => returned = "None"
                 /\ op = "SET" => returned = "True"
C11_Witness ==
    /\ phase = "returned"
    /\ returned = "None"
    /\ Len(outcomes) >= 2
    /\ \A i \in 1..Len(outcomes) :
          outcomes[i] \in {"builtins.TimeoutError", "builtins.ConnectionError"}

\* C12: each call of locust_redis_get or locust_redis_set fires the stats
\* event exactly once, whatever number of attempts it made: once on
\* success, once on a non-retryable failure, once when the operation keeps
\* failing with a retryable error.
C12_OneEventPerCall == phase = "returned" => Len(events) = 1

\* C13: retry masking. A call whose attempts failed with retryable errors
\* and whose last attempt succeeded emits an outcome without exception,
\* records no error span and reports no failed outcome for the failures
\* before the success.
C13_RetryMasking ==
    phase = "returned" /\ LastOutcome \notin ErrorKinds =>
        /\ LastEvent.exception = "None"
        /\ error_spans = 0
        /\ \A i \in 1..Len(events) : events[i].exception = "None"

\* C14: a call that failed with a retryable error on every attempt up to
\* the attempt limit emits exactly one failed outcome, carrying the last
\* attempt's error, records exactly one error span and returns None.
C14_ExhaustionOneFailedOutcome ==
    ( /\ phase = "returned"
      /\ \A i \in 1..Len(outcomes) : outcomes[i] \in ErrorKinds /\ IsRetryable(outcomes[i]) )
    => /\ events = <<[exception |-> LastOutcome, attempt |-> Len(outcomes)]>>
       /\ error_spans = 1
       /\ returned = "None"

\* C15: an error outside the retryable kinds is never followed by another
\* attempt; a call whose first attempt fails with one makes exactly one
\* underlying call, records exactly one failed outcome (exception
\* attached, span status ERROR) and returns None.
C15_NonRetryableNotReattempted ==
    /\ \A i \in 1..Len(outcomes) :
          outcomes[i] \in ErrorKinds \ RetryableExceptions =>
              i = Len(outcomes) /\ phase = "returned"
    /\ ( phase = "returned" /\ outcomes[1] \in ErrorKinds \ RetryableExceptions )
       => /\ Len(outcomes) = 1
          /\ events = <<[exception |-> outcomes[1], attempt |-> 1]>>
          /\ error_spans = 1
          /\ returned = "None"
C15_Witness ==
    /\ phase = "returned"
    /\ AttemptLimit(environ) >= 2
    /\ outcomes \in {<<"other">>, <<"redis.TimeoutError">>, <<"valkey.ConnectionError">>}
    /\ returned = "None"

\* C16: a call makes at most retry_attempts (of the resolved configuration)
\* attempts, one after another; none follows a success, and a call that
\* keeps failing with a retryable error stops after exactly that many.
C16_AttemptsWithinConfigured ==
    cfg.retry_attempts >= 1 =>
        /\ Len(outcomes) <= cfg.retry_attempts
        /\ \A i \in 1..Len(outcomes) : i < Len(outcomes) => outcomes[i] \in ErrorKinds
        /\ ( phase = "returned" /\ LastOutcome \in ErrorKinds /\ IsRetryable(LastOutcome) )
           => Len(outcomes) = cfg.retry_attempts

\* The connection-failure, timeout and cluster-unavailable errors of the
\* configured client family, with the builtins of the socket layer.
TransientKinds(c) ==
    {"builtins.TimeoutError", "builtins.ConnectionError"} \cup
    (IF IsValkey(c)
     THEN {"valkey.ClusterDownError", "valkey.TimeoutError", "valkey.ConnectionError"}
     ELSE {"redis.ClusterDownError", "redis.TimeoutError", "redis.ConnectionError"})

\* C17: for both client families, a connection failure, a timeout and a
\* cluster-unavailable error of a GET or SET are retryable (the call ends
\* on one only with the attempts used up), and every other error ends the
\* call at once.
C17_TransientErrorsRetried ==
    /\ ( phase = "returned" /\ LastOutcome \in TransientKinds(cfg) )
       => StopAfterAttempt(AttemptLimit(environ), Len(outcomes))
    /\ \A i \in 1..Len(outcomes) :
          i < Len(outcomes) => outcomes[i] \in TransientKinds(cfg)

\* C18: an invocation with a live connection issues exactly one GET, first;
\* a SET on the same key with the same label (default on the hit path,
\* dummy on the miss path) follows if and only if that GET yielded no
\* value, by a true miss or by a failure after its retries; no SET follows
\* a GET that returned a value, and an invocation never issues more than
\* one GET and one SET.
C18_OneGetThenSetIffNone ==
    /\ [](\A u \in Users :
            /\ pc[u] \notin Requesting => calls[u] = <<>>
            /\ pc[u] \in Requesting =>
                 /\ calls[u][1].op = "GET"
                 /\ path[u] = "hit" =>
                      calls[u][1].name = "default" /\ calls[u][1].key[1] = "key"
                 /\ path[u] = "miss" =>
                      calls[u][1].name = "dummy" /\ calls[u][1].key[1] = "sha256"
            /\ pc[u] \in Getting => Len(calls[u]) = 1
            /\ pc[u] \in Setting =>
                 /\ Len(calls[u]) = 2
                 /\ calls[u][2] = [op |-> "SET", key |-> calls[u][1].key,
                                   name |-> calls[u][1].name])
    /\ [][\A u \in Users :
            /\ pc[u] = "running" /\ pc'[u] # pc[u] => pc'[u] = "get"
            /\ pc[u] \in Getting /\ pc'[u] \in Getting => calls'[u] = calls[u]
            /\ pc[u] \in Getting /\ pc'[u] \in Setting =>
                 pc[u] = "get" /\ pc'[u] = "set" /\ io'[1] \in {"get_absent", "get_error"}
            /\ pc[u] \in Getting /\ pc'[u] \notin Requesting =>
                 pc[u] = "get" /\ pc'[u] = "running" /\ io'[1] = "get_value"
            /\ pc[u] \in Setting /\ pc'[u] \notin Setting => pc'[u] = "running"
            /\ pc[u] \in Setting /\ pc'[u] \in Setting => calls'[u] = calls[u]]_vars
C18_Witness ==
    \E u \in Users :
        /\ pc[u] = "set"
        /\ path[u] = "hit"
        /\ io[1] = "get_error"
        /\ calls[u][2].name = "default"
        /\ calls[u][2].key = calls[u][1].key

\* C19: no false misses on the hit path. Hit-path keys are always among
\* key_1..key_{set_keys}, the keys init_cache_set populates; so with
\* hit_rate = 1.0, all of them present and no faults, every invocation
\* takes the hit path and counts a hit: after n invocations
\* total_requests = n and cache_hits = n.
C19_NoFalseMisses ==
    /\ \A u \in Users :
          pc[u] \in Getting /\ path[u] = "hit" =>
              key[u][1] = "key" /\ key[u][2] \in 1..cfg.set_keys
    /\ ( /\ cfg.hit_rate = 100
         /\ ~backend.faults
         /\ backend.populated >= cfg.set_keys
         /\ \A i \in 1..cfg.set_keys : <<"key", i>> \in store )
       => /\ \A u \in Users : path[u] # "miss" /\ pc[u] \notin Setting
          /\ total_requests = invocations
          /\ cache_hits + Cardinality({u \in Users : pc[u] \in Getting}) = total_requests
C19_Witness ==
    /\ cfg.hit_rate = 100
    /\ cfg.set_keys >= 2
    /\ ~backend.faults
    /\ backend.populated = cfg.set_keys
    /\ \A i \in 1..cfg.set_keys : <<"key", i>> \in store
    /\ \A u \in Users : pc[u] \notin Requesting
    /\ invocations = MaxRequests
    /\ total_requests = MaxRequests
    /\ cache_hits = MaxRequests

\* C20: with hit_rate = 0.0 every invocation takes the miss path: it issues
\* a GET on a novel key, which is absent, then a SET labelled dummy, and
\* after n invocations cache_hits = 0 and total_requests = n.
C20_AllMissAtZeroHitRate ==
    /\ [](cfg.hit_rate = 0 =>
            /\ cache_hits = 0
            /\ total_requests = invocations
            /\ \A u \in Users :
                  /\ path[u] # "hit"
                  /\ pc[u] \in Requesting =>
                       /\ calls[u][1] = [op |-> "GET", key |-> key[u], name |-> "dummy"]
                       /\ key[u][1] = "sha256"
                       /\ \A v \in Users \ {u} : key[v] # key[u]
                  /\ pc[u] \in Getting => key[u] \notin store
                  /\ pc[u] \in Setting =>
                       calls[u][2] = [op |-> "SET", key |-> key[u], name |-> "dummy"])
    /\ [][cfg.hit_rate = 0 =>
            \A u \in Users :
                pc[u] \in Getting /\ pc'[u] \notin Getting =>
                    pc[u] = "get" /\ pc'[u] = "set" /\ io'[1] # "get_value"]_vars
C20_Witness ==
    /\ cfg.hit_rate = 0
    /\ \A u \in Users : pc[u] \notin Requesting
    /\ invocations = MaxRequests
    /\ total_requests = MaxRequests
    /\ cache_hits = 0
    /\ Cardinality({k \in store : k[1] = "sha256"}) = MaxRequests

\* A user's on_stop runs in this step.
StopStep == \E u \in Users : pc[u] = "running" /\ pc'[u] \in {"closing", "stopped"}

\* C21: the summary logged by on_stop never divides by zero: logged with
\* total_requests at 0 it is the N/A marker, and otherwise it carries
\* total_requests, cache_hits and cache_hits / total_requests * 100 (to the
\* nearest hundredth of a percent).
C21_SummaryNeverDividesByZero ==
    /\ [](summary.kind # "ZeroDivisionError")
    /\ [][ StopStep =>
             IF total_requests = 0
             THEN summary'.kind = "N/A"
             ELSE /\ summary'.kind = "rate"
                  /\ summary'.total = total_requests
                  /\ summary'.hits = cache_hits
                  /\ 2 * (summary'.rate * total_requests - cache_hits * 10000)
                        <= total_requests
                  /\ 2 * (cache_hits * 10000 - summary'.rate * total_requests)
                        <= total_requests ]_vars

\* C21 witness: a user stopped before any request was counted and the
\* summary is the N/A marker.
C21_Witness ==
    /\ summary.kind = "N/A"
    /\ total_requests = 0
    /\ \E u \in Users : pc[u] \in {"closing", "stopped"}

\* C22 as stated: while every construction has failed, every user's handle
\* is null, no GET or SET is in flight or was answered, cache_hits is 0 and
\* a logged summary is the N/A marker.
C22_UnreachableSummaryNotApplicable ==
    (constructed = 0) =>
        /\ \A u \in Users : cache_conn[u] = None /\ pc[u] \notin Requesting
        /\ cache_hits = 0 /\ hit_gets = 0
        /\ summary.kind \in {"none", "N/A"}

\* C22 amended: while every construction has failed, every user's handle is
\* null, no GET or SET is in flight or was answered, cache_hits is 0, and a
\* logged summary is the N/A marker only if no invocation was counted:
\* otherwise it reports the counted invocations, 0 hits and a rate of 0.00.
C22_UnreachableSummaryZeroRate ==
    (constructed = 0) =>
        /\ \A u \in Users : cache_conn[u] = None /\ pc[u] \notin Requesting
        /\ cache_hits = 0 /\ hit_gets = 0
        /\ summary.kind \in {"none", "N/A", "rate"}
        /\ (summary.kind = "N/A") => total_requests = 0
        /\ (summary.kind = "rate") =>
              /\ summary.total = total_requests /\ total_requests = invocations
              /\ summary.total > 0
              /\ summary.hits = 0
              /\ summary.rate = 0

\* C22 witness: the construction failed, the users' invocations were counted
\* and the summary of a stopping user reports them with a rate of 0.00.
C22_Witness ==
    /\ constructed = 0 /\ failed >= 1
    /\ summary.kind = "rate" /\ summary.total = MaxRequests /\ summary.rate = 0

\* C27: every summary is logged after the last cache_scenario invocation of
\* the run: once a summary is logged no invocation is counted and no hit is
\* added, so the logged values are the final ones.
C27_SummaryAfterLastInvocation ==
    [][ (summary.kind # "none") =>
            /\ counter_vars' = counter_vars
            /\ invocations' = invocations ]_vars

\* C28: a user with a GET or SET in flight has acquired and not yet released
\* (it holds a reference and a non-null handle), and close() was never
\* called on the handle the operation was issued on.
C28_NoOperationAfterClose ==
    \A u \in Users :
        pc[u] \in Requesting =>
            /\ connected[u]
            /\ cache_conn[u] # None
            /\ cache_conn[u] \notin closed_handles

\* C28 witness: a handle was closed by the last release, and a user that
\* started afterwards has a GET in flight on the handle built for it.
C28_Witness ==
    /\ closed_handles # {}
    /\ \E u \in Users : pc[u] = "get" /\ cache_conn[u] \notin closed_handles

\* C29: a get_config call made while no configuration is set (no set_config
\* yet, or a reset_config since the last one) raises RuntimeError, and one
\* made after set_config(c) returns the object c of the last set_config.
C29_GetConfigRaisesUnlessSet ==
    (got # NotCalled) =>
        IF last_call.op \in {"none", "reset"}
        THEN got.raised = "RuntimeError"
        ELSE got.raised = "none" /\ got.value = last_call.config

\* C29 witness: a second object was stored over the first and get_config
\* returned it.
C29_Witness ==
    /\ last_call = [op |-> "set", config |-> 2]
    /\ got = [raised |-> "none", value |-> 2]

\* The value the stated priority gives query_timeout and cache_type.
PriorityQueryTimeout ==
    IF os_environ.QUERY_TIMEOUT # Absent THEN ParseInt(os_environ.QUERY_TIMEOUT)
    ELSE IF args.config
         THEN IF yaml_flat.query_timeout # Missing THEN yaml_flat.query_timeout
              ELSE query_timeout_default
         ELSE IF args.query_timeout # Missing THEN args.query_timeout
              ELSE query_timeout_default
PriorityCacheType ==
    IF os_environ.CACHE_TYPE # Absent THEN os_environ.CACHE_TYPE
    ELSE IF args.config /\ yaml_flat.cache_type # Absent THEN yaml_flat.cache_type
    ELSE subcommand

\* C30: a configuration from_args built carries, for the field and for
\* cache_type, the value of the environment variable if it is set, else the
\* CLI argument (the YAML value in YAML mode), else the default (the
\* subcommand's type); and from_args fails validation only when the value
\* the priority picks is not a valid one.
C30_FromArgsPriority ==
    /\ (built.outcome = "ok") =>
          /\ built.query_timeout = PriorityQueryTimeout
          /\ built.cache_type = PriorityCacheType
    /\ (built.outcome = "ValidationError") =>
          \/ ~ValidQueryTimeout(PriorityQueryTimeout)
          \/ ~ValidCacheType(PriorityCacheType)

\* C30 witness: in YAML mode the environment overrode the YAML value of the
\* field, and the YAML cache_type overrode the subcommand's.
C30_Witness ==
    /\ built.outcome = "ok" /\ args.config
    /\ os_environ.QUERY_TIMEOUT = "2" /\ yaml_flat.query_timeout = 4
    /\ built.query_timeout = 2
    /\ os_environ.CACHE_TYPE = Absent /\ yaml_flat.cache_type = "redis"
    /\ subcommand = "valkey_cluster" /\ built.cache_type = "redis"

\* The order of calls the claims state for a local and for a master run.
StatedOrder ==
    <<"setup_otel_tracing", "runner.start", "gevent.sleep", "runner.quit", "_log_stats",
      "save_results_to_csv", "shutdown_otel_tracing">>
IsPrefix(a, b) == Len(a) <= Len(b) /\ \A i \in 1..Len(a) : a[i] = b[i]
Times(name) == Cardinality({i \in 1..Len(trace) : trace[i] = name})

\* The driver's state in the stated state machine, as a number: Idle 0,
\* Connecting 1, Running 2, Draining 3, Stopped 4.
DriverState ==
    IF ~Called("setup_otel_tracing") THEN 0
    ELSE IF ~Called("runner.start") THEN 1
    ELSE IF ~Called("runner.quit") THEN 2
    ELSE IF ~Called("shutdown_otel_tracing") THEN 3
    ELSE 4

\* The driver waited the configured duration and started the configured
\* users at the configured rate.
StartedAsConfigured ==
    /\ started.user_count = run_config.connections
    /\ started.spawn_rate = run_config.spawn_rate
WaitedDuration == elapsed = run_config.duration

\* C23: in a local run in which every construction fails no user raises,
\* the driver is never stuck or ended before its last statement, and it
\* starts the configured users, waits the whole duration before it quits,
\* and ends only with the statistics logged, the CSV written and tracing
\* shut down.
C23_GracefulDegradation ==
    (mode = "local" /\ constructed = 0) =>
        /\ \A u \in Users : ~raised[u]
        /\ ~Finished => ENABLED NextDriver
        /\ Called("runner.start") => StartedAsConfigured
        /\ Called("runner.quit") => WaitedDuration
        /\ Finished =>
              /\ Times("_log_stats") = 1
              /\ Times("save_results_to_csv") = 1 /\ csv # {}
              /\ Times("shutdown_otel_tracing") = 1
              /\ trace[Len(trace)] = "shutdown_otel_tracing"

\* C23 witness: a local run of two seconds ended; its users were started,
\* their constructions failed and their invocations were counted.
C23_Witness ==
    /\ mode = "local" /\ Finished
    /\ constructed = 0 /\ failed >= 1 /\ total_requests >= 1
    /\ run_config.duration = 2 /\ elapsed = 2
    /\ csv # {}

\* C24: a local run makes the stated calls in the stated order, each once
\* (its calls are always a prefix of the order and, at the end, all of it),
\* with runner.start given connections and spawn_rate and the quit after a
\* wait of duration seconds; its state only stays or advances by one.
C24_LocalOrder ==
    /\ [](mode = "local" =>
            /\ IsPrefix(trace, StatedOrder)
            /\ Called("runner.start") => StartedAsConfigured
            /\ Called("runner.quit") => WaitedDuration
            /\ Finished => trace = StatedOrder)
    /\ [][ mode = "local" =>
              \/ DriverState' = DriverState
              \/ DriverState' = DriverState + 1 ]_vars

\* C24 witness: a local run against a reachable backend ended after two
\* seconds with all seven calls made.
C24_Witness ==
    /\ mode = "local" /\ Finished /\ DriverState = 4
    /\ Len(trace) = 7
    /\ constructed >= 1
    /\ run_config.duration = 2 /\ elapsed = 2

\* C25: a master calls runner.start only with at least num_workers workers
\* registered; until then it stays in Connecting, polling at one interval;
\* from the start on it follows the order of a local run.
C25_MasterWaitsForWorkers ==
    /\ [](mode = "master" =>
            /\ Called("runner.start") => started.clients >= run_config.num_workers
            /\ Cardinality(intervals) <= 1
            /\ (polls > 0 /\ ~Called("runner.start")) => DriverState = 1
            /\ IsPrefix(trace, StatedOrder)
            /\ Called("runner.start") => StartedAsConfigured
            /\ Called("runner.quit") => WaitedDuration
            /\ Finished => trace = StatedOrder)
    /\ [][ (mode = "master" /\ ~Called("runner.start") /\ Called("runner.start")') =>
              clients >= run_config.num_workers ]_vars

\* C25 witness: a master that needs two workers polled, started with two
\* registered, and ended.
C25_Witness ==
    /\ mode = "master" /\ Finished
    /\ run_config.num_workers = 2 /\ started.clients = 2
    /\ polls >= 1

\* C26: a worker never calls runner.start or runner.quit, waits for no
\* duration and writes no CSV; it shuts tracing down at most once and only
\* with its greenlet ended, and once the greenlet has ended it is not held
\* back from ending.
C26_WorkerEndsWithGreenlet ==
    (mode = "worker") =>
        /\ ~Called("runner.start") /\ ~Called("runner.quit") /\ ~Called("gevent.sleep")
        /\ ~Called("save_results_to_csv") /\ csv = {}
        /\ Times("shutdown_otel_tracing") <= 1
        /\ Called("shutdown_otel_tracing") => greenlet = "ended"
        /\ Finished => Times("shutdown_otel_tracing") = 1
        /\ (greenlet = "ended" /\ ~Finished) => ENABLED (WorkerJoinEnd \/ ShutdownTracing)

\* C26 witness: the worker's greenlet ended and the worker shut tracing
\* down and returned.
C26_Witness ==
    /\ mode = "worker" /\ Finished
    /\ greenlet = "ended"
    /\ Called("runner.greenlet.join")

\* The file named by --config cannot be loaded.
UnloadableYaml == yaml_file \in {"not_found", "invalid_yaml", "not_mapping", "unknown_key"}

\* C31: once from_args was called with --config, any other flag the parser
\* recognised on the command line made it exit with status 1 before the
\* YAML file was read and before a configuration was constructed; and a
\* missing file, invalid YAML, a document that is no mapping or an unknown
\* key made it exit with status 1 as well.
C31_ConfigExcludesOtherFlags ==
    (built.outcome # "none" /\ args.config) =>
        /\ (OptionsGiven(argv) \ {"config"} # {}) =>
              /\ built.outcome = "SystemExit"
              /\ ~built.loaded
              /\ objects = 0
        /\ UnloadableYaml => built.outcome = "SystemExit"


\* The GETs and SETs the running init_cache_set has issued, in order.
IsGet(m) == m.op = "GET"
CacheOps == SelectSeq(issued, IsCacheOp)
Gets == SelectSeq(issued, IsGet)
SetKeysIssued == {CacheOps[p].key : p \in {q \in 1..Len(CacheOps) : CacheOps[q].op = "SET"}}
WasAbsent(k) == HitKey(k) \notin entry.before

\* C32: init_cache_set issues one GET per key, key_1, key_2, ... in
\* ascending order (all of key_1..key_{set_keys} once it has returned), and
\* a SET only right after the GET of the same key, and only for a key that
\* was absent, so a key that existed is never written; once it has returned
\* every key that was absent has been set, every key_1..key_{set_keys} is
\* present, and a run started right after a run that returned issues no SET.
C32_PopulateOnlyAbsentKeys ==
    /\ \A p \in 1..Len(Gets) : Gets[p].key = p
    /\ \A p \in 1..Len(CacheOps) :
          CacheOps[p].op = "SET" =>
              /\ p > 1
              /\ CacheOps[p - 1] = Made("GET", CacheOps[p].key)
              /\ WasAbsent(CacheOps[p].key)
    /\ entry.returned =>
          /\ Len(Gets) = entry.set_keys
          /\ SetKeysIssued = {k \in 1..entry.set_keys : WasAbsent(k)}
          /\ Len(CacheOps) = entry.set_keys + Cardinality(SetKeysIssued)
          /\ \A k \in 1..entry.set_keys : HitKey(k) \in present
          /\ present = InitCacheSet(entry.before, entry.set_keys)
    /\ entry.clean => SetKeysIssued = {}

\* C32 witness: a run over two keys has returned, and the run started right
\* after it has returned too, having issued two GETs and no SET.
C32_Witness ==
    /\ entry.run = 2 /\ entry.clean /\ entry.returned
    /\ entry.set_keys = 2
    /\ CacheOps = <<Made("GET", 1), Made("GET", 2)>>

\* init_cache_set was entered with a null client, or one of its calls raised.
NullClientCall ==
    /\ entry.func = "init_cache_set" /\ entry.cache_client = None
    /\ entry.pc = "done"
CallRaised == entry.failed_at > 0

\* C33: init_cache_set called with a null client ends in exit status 1
\* having issued no GET and no SET; and once a GET or SET has raised, the
\* exit is under way (inside an entry point through its finally block),
\* the failing operation stays the last one issued, and the process ends
\* with status 1.
C33_ExitOnNullClientOrError ==
    /\ NullClientCall =>
          /\ entry.code = 1
          /\ issued = <<Made("init_cache_set", 0)>>
    /\ CallRaised =>
          /\ entry.exc # "none"
          /\ entry.pc \notin Requesting
          /\ ~entry.returned
          /\ Len(CacheOps) = entry.failed_at
          /\ (entry.pc = "done") => entry.code = 1

\* C33 witness: inside an entry point the SET of key_1 raised, nothing was
\* issued after it, and the process ended with status 1.
C33_Witness ==
    /\ entry.func = "init_valkey_load_test" /\ entry.set_keys = 2
    /\ entry.failed_at = 2
    /\ CacheOps = <<Made("GET", 1), Made("SET", 1)>>
    /\ entry.pc = "done" /\ entry.code = 1

\* The last call was a setup / a shutdown.
LastSetup == otel.last.fn = "setup_otel_tracing"
LastShutdown == otel.last.fn = "shutdown_otel_tracing"

\* C34: after any sequence of setup_otel_tracing / shutdown_otel_tracing
\* calls the flag _otel_initialized is true exactly when a setup with
\* tracing enabled has returned True and no shutdown has returned True
\* since; a setup with tracing disabled, or one whose try block failed
\* with an error, returned False (it did not raise) and left the flag
\* false; a setup while initialised
\* returned True and made no provider; a shutdown while not initialised
\* returned False without a call on the provider; a shutdown that returned
\* True flushed the provider once, shut it down once and cleared the flag.
C34_TracingFlag ==
    /\ _otel_initialized = otel.armed
    /\ (LastSetup /\ (~otel.tracing_enabled \/ otel.last.error # "none")) =>
          /\ otel.last.raised = "none"
          /\ ~otel.last.result
          /\ ~_otel_initialized
    /\ (LastSetup /\ otel.last.was) =>
          /\ otel.last.result
          /\ otel.last.made = 0
          /\ _otel_initialized
    /\ (LastShutdown /\ ~otel.last.was) =>
          /\ ~otel.last.result
          /\ otel.last.flushed = 0 /\ otel.last.shut = 0
          /\ ~_otel_initialized
    /\ (LastShutdown /\ otel.last.result) =>
          /\ otel.last.was
          /\ otel.last.flushed = 1 /\ otel.last.shut = 1
          /\ ~_otel_initialized

\* The labels the stated rule gives a resolved cache type.
FamilyRequestType(t) == IF t \in {"valkey_cluster", "valkey"} THEN "Valkey" ELSE "Redis"
FamilyDbSystem(t) == IF t \in {"valkey_cluster", "valkey"} THEN "valkey" ELSE "redis"

\* C35: once a configuration built by from_args is stored as the process
\* configuration, the request type and the db.system the executor attaches
\* to its events and spans are those of the configuration's cache type:
\* "Valkey" / "valkey" for valkey and valkey_cluster, "Redis" / "redis" for
\* redis and redis_cluster.
C35_FamilyFollowsConfiguration ==
    (_config # None /\ built.outcome = "ok") =>
        /\ _get_request_type(os_environ) = FamilyRequestType(built.cache_type)
        /\ _get_db_system(os_environ) = FamilyDbSystem(built.cache_type)

\* The users inside the critical section of acquire or release, suspended
\* in the construction or in close().
InsideLock == {u \in Users : pc[u] \in {"constructing", "closing"}}

\* C36: at most one user is inside the critical section of acquire or
\* release, and it is the one that holds the lock; while it is suspended
\* there no other task takes the lock or changes the shared handle or the
\* count; and a user that is inside leaves and frees the lock, whether the
\* construction succeeded or failed and whether close() raised or not, so
\* the lock is free again and again.
C36_LockSerialises ==
    /\ [](/\ Cardinality(InsideLock) <= 1
          /\ \A u \in Users : (u \in InsideLock) <=> (conn_lock = u))
    /\ [][ (conn_lock # 0) =>
              /\ conn_lock' \in {conn_lock, 0}
              /\ (conn_lock' = conn_lock) =>
                     UNCHANGED <<shared_cache_conn, shared_conn_users>> ]_vars
    /\ \A u \in Users : (conn_lock = u) ~> (conn_lock = 0 /\ u \notin InsideLock)

\* C36 witness: two users held the connection at once, the close() of the
\* last release has raised, and the lock is free with no user inside.
C36_Witness ==
    /\ peak >= 2 /\ constructed >= 1
    /\ io = <<"close_error">>
    /\ conn_lock = 0 /\ InsideLock = {}

\* The users that hold a live handle: their acquire returned a connection
\* and they have not released it.
Holders == {u \in Users : connected[u] /\ cache_conn[u] # None}

\* C37: whenever no user is inside acquire or release, the reference count
\* equals the number of users that hold a live handle; an acquire that
\* returned null adds nothing to it.
C37_CountEqualsHolders ==
    NoneInside => shared_conn_users = Cardinality(Holders)

\* C38: the count is decremented, and close() called, only by the on_stop
\* of a running user that holds a live handle (its first on_stop after the
\* acquire), the reset at the end of a close apart; the on_stop of a user
\* whose acquire returned null changes neither the count nor the handle
\* and closes nothing, and neither does an on_stop called on a user that
\* has stopped already.
C38_ReleaseOncePerAcquire ==
    /\ [][ (shared_conn_users' < shared_conn_users) =>
              \E u \in Users :
                  \/ /\ pc[u] = "running" /\ u \in Holders
                     /\ pc'[u] \in {"stopped", "closing"}
                     /\ shared_conn_users' = shared_conn_users - 1
                  \/ pc[u] = "closing" /\ pc'[u] = "stopped" ]_vars
    /\ [][ (closed' # closed) =>
              \E u \in Users : pc[u] = "running" /\ u \in Holders /\ pc'[u] = "closing" ]_vars
    /\ [][ \A u \in Users :
              (pc[u] = "running" /\ ~connected[u] /\ pc'[u] = "stopped") =>
                  UNCHANGED <<shared_conn_users, shared_cache_conn, closed>> ]_vars
    /\ [][ (io' = <<"on_stop_again">>) =>
              UNCHANGED <<shared_conn_users, shared_cache_conn, closed, pc, connected>> ]_vars

\* C38 witness: on_stop was called again on a stopped user while the other
\* user still holds the connection, and the count is still 1.
C38_Witness ==
    /\ io = <<"on_stop_again">>
    /\ failed = 0 /\ peak = 2
    /\ shared_conn_users = 1 /\ Cardinality(Holders) = 1
    /\ shared_cache_conn # None

\* C39: an entry point reached from main() comes to its first get_config
\* call with a configuration stored, and no get_config call raises the
\* not-initialised error.
C39_ConfiguredBeforeFirstGet ==
    /\ (entry.pc = "first_get_config") => (_config # None)
    /\ got.raised # "RuntimeError"

\* How many calls of one name the entry point has made so far.
CallsOf(name) == Cardinality({n \in DOMAIN issued : issued[n].op = name})
Connected == entry.func \in InitFuncs /\ entry.cache_client # None
NotConnected ==
    /\ entry.func \in InitFuncs /\ entry.cache_client = None
    /\ entry.pc = "done"

\* C40: an init entry point that got a connection calls close() and
\* shutdown_otel_tracing() at most once each, and exactly once each by the
\* time it is over, whatever init_cache_set did; one that got no connection
\* ends with status 1 and never calls init_cache_set.
C40_CleanupExactlyOnce ==
    /\ Connected =>
          /\ CallsOf("close") <= 1 /\ CallsOf("shutdown_otel_tracing") <= 1
          /\ (entry.pc = "done") =>
                CallsOf("close") = 1 /\ CallsOf("shutdown_otel_tracing") = 1
    /\ NotConnected =>
          /\ entry.code = 1
          /\ CallsOf("init_cache_set") = 0
====
